---- MODULE Spec2Model ----
(***************************************************************************)
(* The amsal playback engine: command dispatcher, queue controller,        *)
(* heartbeat and the audio pipeline's flags and threads.                    *)
(*                                                                         *)
(* Documents are records; an absent JSON key is the value Null.  Queue     *)
(* indices are 0-based as in the source; Get(seq, i) is Vec::get(i).       *)
(* Times are milliseconds.  A decoded packet carries PacketMs of audio and *)
(* every track holds MaxPackets packets.                                   *)
(***************************************************************************)
EXTENDS Integers, Sequences, FiniteSets, TLC

VARIABLES
    state,      \* Engine.state   : the authoritative playback state document
    queue,      \* Engine.queue   : the authoritative queue document
    audio,      \* AudioState     : the pipeline's atoms, ring fill and threads
    history,    \* /history/*     : the play events recorded, oldest first
    store,      \* the store's mirror of /playback/state and /queue/current
    last,       \* the operation that produced this state, when it is one the
                \* properties speak of, else "other"
    trail,      \* the queue index at the last enabling of shuffle, and whether
                \* that enabling has just been undone
    ctl,        \* Engine.shutdown, Engine.handles, the three loops' positions,
                \* the watchers' channels and the caller inside shutdown()
    stats,      \* /stats/<id> and the record_play_event calls in progress
    hist,       \* /history/<epoch_ms> by its path key, and the wall clock
    lib,        \* /library/<id>: the scrolls, and the last library call's result
    clk,        \* /clock/config, the heartbeat's clock, /clock/tick and
                \* /clock/pulses/<name>
    ffi,        \* the calling thread's LAST_ERROR and the last C-ABI call
    th,         \* AudioState's atomics, its thread handles, the decoder and
                \* output threads, and the threads inside play() / stop()
    lk,         \* the state, queue and ring mutexes: owner, and each thread's
                \* remaining lock operations and held guards
    sq,         \* a client's set_queue between its two statements
    rg,         \* a SampleRing, the last call on it, and the decoder at its push loop
    sh          \* the last call of generate_shuffle_order and its result

\* The engine proper, and the components that are studied on their own.
core == <<state, queue, audio, history, store, last, trail, ctl, stats>>
side == <<hist, lib, clk, ffi, th, lk, sq, rg, sh>>
vars == <<core, side>>

Null == "null"

\* ------------------------------------------------------------------ bounds
MaxLen == 2         \* longest queue set_queue installs
MaxStart == 1       \* largest start_index set_queue is called with
MaxPackets == 1     \* packets per track
PacketMs == 4000    \* audio time carried by one packet
RingCap == 1        \* ring capacity, in packets
MaxHistory == 1     \* play events recorded before the model stops recording
MaxBox == 2         \* records a client leaves waiting in a watcher's channel
MaxShutdowns == 2   \* shutdown() calls of one behaviour
MaxCalls == 3       \* record_play_event calls each thread makes
MaxNow == 2         \* last millisecond of the wall clock
MaxEvents == 3      \* play events recorded by path key
MaxTicks == 4       \* heartbeat iterations the clock counts
MaxPlays == 2       \* calls of AudioEffect::play
TrackPackets == 2   \* packets a decoder thread reads before the end of stream
MaxEnds == 2        \* play events the heartbeat records at natural ends

\* ------------------------------------------------------- program constants
PreviousRestartMs == 3000
DefaultVolume == 800        \* "volume": 0.8, in thousandths

\* ----------------------------------------------------------------- library
IdSeq == <<"a", "b", "c", "d", "e">>
LibraryIds == {IdSeq[i] : i \in 1..Len(IdSeq)}
MissingId == "x"
TrackMs == MaxPackets * PacketMs

\* shell.get(library_path(id)) returning a scroll whose data has a "path"
Playable(id) == id \in LibraryIds

\* A library entry that has no "path" field.
PathlessId == "y"

\* The metadata of the library entries, in the order of IdSeq.
TitleSeq == <<"title_a", "title_b", "title_c", "title_d", "title_e">>
ArtistSeq == <<"artist_a", "artist_b", "artist_c", "artist_d", "artist_e">>
AlbumSeq == <<"album_a", "album_b", "album_c", "album_d", "album_e">>
Field(seq, id) == seq[CHOOSE i \in 1..Len(IdSeq) : IdSeq[i] = id]

ErrorText == "audio_device_or_decode_error"

\* ------------------------------------------------------------ scroll_ext.rs
Get(seq, i) == IF i >= 0 /\ i < Len(seq) THEN seq[i + 1] ELSE Null

default_playback_state ==
    [playing |-> FALSE, current_id |-> Null, position_ms |-> 0, duration_ms |-> 0,
     volume |-> DefaultVolume, shuffle |-> FALSE, repeat |-> "off", error |-> Null,
     title |-> Null, artist |-> Null, album |-> Null]

default_queue_state ==
    [items |-> <<>>, index |-> 0, shuffle |-> FALSE,
     has_order |-> FALSE, shuffle_order |-> <<>>]

queue_current_id(data) ==
    IF data.items = <<>> THEN Null
    ELSE IF data.shuffle
         THEN IF ~data.has_order THEN Null
              ELSE IF data.index >= Len(data.shuffle_order) THEN Null
                   ELSE Get(data.items, data.shuffle_order[data.index + 1])
         ELSE Get(data.items, data.index)

repeat_mode(data) == data.repeat

\* ----------------------------------------------------------------- audio.rs
AudioNew ==
    [playing |-> FALSE, paused |-> FALSE, stop_signal |-> FALSE,
     finished |-> FALSE, error |-> FALSE,
     seek_to_ms |-> 0, position_ms |-> 0, duration_ms |-> 0,
     ring |-> 0, path |-> Null, next_probe |-> Null, volume |-> 80,
     dec |-> "none", out |-> "none"]

\* stop(): raise stop_signal, clear the flags and the ring, join both threads.
\* A decoder thread that was alive leaves its loop and its closure stores
\* finished = true; the output thread drains and leaves.
AudioStop(a) ==
    [a EXCEPT !.stop_signal = TRUE, !.playing = FALSE, !.paused = FALSE,
              !.ring = 0,
              !.finished = IF a.dec # "none" THEN TRUE ELSE a.finished,
              !.dec = "none", !.out = "none"]

\* play(path): stop(), reset every atom, take the cached probe, spawn threads.
AudioPlay(a, path) ==
    [AudioStop(a) EXCEPT !.stop_signal = FALSE, !.playing = TRUE, !.paused = FALSE,
                         !.finished = FALSE, !.error = FALSE,
                         !.position_ms = 0, !.duration_ms = 0, !.seek_to_ms = 0,
                         !.ring = 0, !.next_probe = Null, !.path = path,
                         !.dec = "open", !.out = "start"]

AudioPause(a) == [a EXCEPT !.paused = TRUE]
AudioResume(a) == [a EXCEPT !.paused = FALSE]
AudioSeek(a, ms) == [a EXCEPT !.seek_to_ms = ms]
AudioPrepareNext(a, path, probeOk) ==
    IF probeOk THEN [a EXCEPT !.next_probe = path] ELSE a


\* ---------------------------------------------------------------- engine.rs
GaplessLeadMs == 3000

\* The engine as one value, so that a handler is a function of it.
World == [state |-> state, queue |-> queue, audio |-> audio,
          history |-> history, store |-> store]

\* update_state / replace_state: write the in-memory copy, then mirror it.
update_state(w, s) == [w EXCEPT !.state = s, !.store.playback_state = s]
replace_state(w, s) == [w EXCEPT !.state = s, !.store.playback_state = s]
\* update_queue, and the explicit shell.put of advance_queue / retreat_queue.
update_queue(w, q) == [w EXCEPT !.queue = q, !.store.queue_current = q]

record_play_event(w, id, ms) ==
    [w EXCEPT !.history = Append(@, [media_id |-> id, duration_played_ms |-> ms])]

\* ---- generate_shuffle_order: every index but the current one, ascending,
\* shuffled by Fisher-Yates with draws js[i] = rng % (i + 1), then the
\* current index put first.
RECURSIVE Others(_, _, _)
Others(i, len, cur) ==
    IF i >= len THEN <<>>
    ELSE IF i # cur THEN <<i>> \o Others(i + 1, len, cur)
         ELSE Others(i + 1, len, cur)

\* faulty: the cell at i is copied over the cell at j, not exchanged
Swap_copies(order, i, j) ==
    [k \in 1..Len(order) |-> IF k = j + 1 THEN order[i + 1] ELSE order[k]]

Swap(order, i, j) ==
    [k \in 1..Len(order) |->
        IF k = i + 1 THEN order[j + 1]
        ELSE IF k = j + 1 THEN order[i + 1] ELSE order[k]]

RECURSIVE FisherYates(_, _, _)
FisherYates(order, i, js) ==
    IF i < 1 THEN order ELSE FisherYates(Swap(order, i, js[i]), i - 1, js)

\* The draws of one call: js[i] in 0..i for i = m-1 down to 1.
RngDraws(m) == {js \in [1..(m - 1) -> 0..(m - 1)] : \A i \in 1..(m - 1) : js[i] <= i}

generate_shuffle_order(len, current_index, js) ==
    LET order == Others(0, len, current_index)
    IN <<current_index>> \o FisherYates(order, Len(order) - 1, js)

\* ---- handle_playback, one operator per command
\* faulty: the new document takes the default settings, not the snapshot
HandlePlay_default_settings(w, id) ==
    IF Playable(id)
    THEN replace_state(
            [w EXCEPT !.audio = AudioPlay(@, id)],
            [default_playback_state EXCEPT
                !.current_id = id, !.playing = TRUE, !.duration_ms = TrackMs,
                !.title = Field(TitleSeq, id), !.artist = Field(ArtistSeq, id),
                !.album = Field(AlbumSeq, id)])
    ELSE w

\* faulty: a miss stops what is playing
HandlePlay_miss_stops(w, id) ==
    IF Playable(id)
    THEN replace_state(
            [w EXCEPT !.audio = AudioPlay(@, id)],
            [current_id |-> id, playing |-> TRUE, position_ms |-> 0,
             duration_ms |-> TrackMs, volume |-> w.state.volume,
             shuffle |-> w.state.shuffle,
             repeat |-> w.state.repeat, error |-> Null,
             title |-> Field(TitleSeq, id), artist |-> Field(ArtistSeq, id),
             album |-> Field(AlbumSeq, id)])
    ELSE replace_state([w EXCEPT !.audio = AudioStop(@)], default_playback_state)

HandlePlay(w, id) ==
    IF Playable(id)
    THEN replace_state(
            [w EXCEPT !.audio = AudioPlay(@, id)],
            [current_id |-> id, playing |-> TRUE, position_ms |-> 0,
             duration_ms |-> TrackMs, volume |-> w.state.volume,
             shuffle |-> w.state.shuffle,
             repeat |-> w.state.repeat, error |-> Null,
             title |-> Field(TitleSeq, id), artist |-> Field(ArtistSeq, id),
             album |-> Field(AlbumSeq, id)])
    ELSE w

HandlePause(w) ==
    update_state([w EXCEPT !.audio = AudioPause(@)], [w.state EXCEPT !.playing = FALSE])

HandleResume(w) ==
    update_state([w EXCEPT !.audio = AudioResume(@)], [w.state EXCEPT !.playing = TRUE])

HandleStop(w) ==
    replace_state([w EXCEPT !.audio = AudioStop(@)], default_playback_state)

HandleSeek(w, ms) ==
    update_state([w EXCEPT !.audio = AudioSeek(@, ms)], [w.state EXCEPT !.position_ms = ms])

\* f32::clamp(0.0, 1.0), in thousandths
Clamp01(v) == IF v < 0 THEN 0 ELSE IF v > 1000 THEN 1000 ELSE v

\* set_volume(volume): (volume.clamp(0.0, 1.0) * 100.0) as u32
AudioSetVolume(a, v) == [a EXCEPT !.volume = (Clamp01(v) * 100) \div 1000]

HandleSetVolume(w, v) ==
    update_state([w EXCEPT !.audio = AudioSetVolume(@, v)], [w.state EXCEPT !.volume = v])

HandleSetRepeat(w, mode) == update_state(w, [w.state EXCEPT !.repeat = mode])

\* disabling drops the order without resolving the index through it
HandleSetShuffle_keeps_index(w, enabled, js) ==
    LET w1 == update_state(w, [w.state EXCEPT !.shuffle = enabled])
        data == [w.queue EXCEPT !.shuffle = enabled]
    IN IF enabled
       THEN update_queue(w1, [data EXCEPT
                !.has_order = TRUE,
                !.shuffle_order = generate_shuffle_order(Len(data.items), data.index, js),
                !.index = 0])
       ELSE update_queue(w1, [data EXCEPT !.has_order = FALSE, !.shuffle_order = <<>>])

HandleSetShuffle(w, enabled, js) ==
    LET w1 == update_state(w, [w.state EXCEPT !.shuffle = enabled])
        data == [w.queue EXCEPT !.shuffle = enabled]
        len == Len(data.items)
        idx == data.index
        actual == Get(data.shuffle_order, data.index)
    IN IF enabled
       THEN update_queue(w1, [data EXCEPT
                !.has_order = TRUE,
                !.shuffle_order = generate_shuffle_order(len, idx, js),
                !.index = 0])
       ELSE update_queue(w1, [data EXCEPT
                !.index = IF data.has_order /\ data.index < Len(data.shuffle_order)
                          THEN actual ELSE @,
                !.has_order = FALSE,
                !.shuffle_order = <<>>])

\* ---- faulty variants of the queue moves, to show what the properties detect
\* steps over the successor
advance_queue_skips_one(w) ==
    LET data == w.queue
        len == Len(data.items)
        index == data.index + 2
        moved == [data EXCEPT !.index = IF index >= len THEN 0 ELSE index]
        w2 == update_queue(w, moved)
        play_id == queue_current_id(moved)
    IN IF data.items = <<>> THEN w
       ELSE IF play_id # Null THEN HandlePlay(w2, play_id) ELSE w2

\* wraps at the end whatever the repeat mode
advance_queue_always_wraps(w) ==
    LET data == w.queue
        len == Len(data.items)
        index == data.index + 1
        moved == [data EXCEPT !.index = IF index >= len THEN 0 ELSE index]
        w2 == update_queue(w, moved)
        play_id == queue_current_id(moved)
    IN IF data.items = <<>> THEN w
       ELSE IF repeat_mode(w.state) = "one"
            THEN IF queue_current_id(data) # Null
                 THEN HandlePlay(w, queue_current_id(data)) ELSE w
            ELSE IF play_id # Null THEN HandlePlay(w2, play_id) ELSE w2

\* stops at the end whatever the repeat mode
advance_queue_never_wraps(w) ==
    LET data == w.queue
        len == Len(data.items)
        index == data.index + 1
        moved == [data EXCEPT !.index = index]
        w2 == update_queue(w, moved)
        play_id == queue_current_id(moved)
    IN IF data.items = <<>> THEN w
       ELSE IF repeat_mode(w.state) = "one"
            THEN IF queue_current_id(data) # Null
                 THEN HandlePlay(w, queue_current_id(data)) ELSE w
            ELSE IF index >= len
                 THEN replace_state([w EXCEPT !.audio = AudioStop(@)],
                                    default_playback_state)
                 ELSE IF play_id # Null THEN HandlePlay(w2, play_id) ELSE w2

\* treats repeat one as repeat all
advance_queue_one_moves(w) ==
    LET data == w.queue
        len == Len(data.items)
        index == data.index + 1
        moved == [data EXCEPT !.index = IF index >= len THEN 0 ELSE index]
        w2 == update_queue(w, moved)
        play_id == queue_current_id(moved)
    IN IF data.items = <<>> THEN w
       ELSE IF index >= len /\ repeat_mode(w.state) = "off"
            THEN replace_state([w EXCEPT !.audio = AudioStop(@)],
                               default_playback_state)
            ELSE IF play_id # Null THEN HandlePlay(w2, play_id) ELSE w2

advance_queue(w) ==
    LET repeat == repeat_mode(w.state)
        data == w.queue
        len == Len(data.items)
        index == data.index + 1
        id == queue_current_id(data)
        moved == [data EXCEPT !.index = IF index >= len THEN 0 ELSE index]
        w2 == update_queue(w, moved)
        play_id == queue_current_id(moved)
    IN IF data.items = <<>> THEN w
       ELSE IF repeat = "one"
            THEN IF id # Null THEN HandlePlay(w, id) ELSE w
            ELSE IF index >= len /\ repeat # "all"
                 THEN replace_state([w EXCEPT !.audio = AudioStop(@)],
                                    default_playback_state)
                 ELSE IF play_id # Null THEN HandlePlay(w2, play_id) ELSE w2

\* stays at index 0 instead of wrapping to the last index
retreat_queue_no_wrap(w) ==
    LET data == w.queue
        index == data.index
        moved == [data EXCEPT !.index = IF index > 0 THEN index - 1 ELSE 0]
        w2 == update_queue(w, moved)
        play_id == queue_current_id(moved)
    IN IF data.items = <<>> THEN w
       ELSE IF play_id # Null THEN HandlePlay(w2, play_id) ELSE w2

retreat_queue(w) ==
    LET data == w.queue
        len == Len(data.items)
        index == data.index
        new_index == IF index > 0 THEN index - 1 ELSE len - 1
        moved == [data EXCEPT !.index = new_index]
        w2 == update_queue(w, moved)
        play_id == queue_current_id(moved)
    IN IF data.items = <<>> THEN w
       ELSE IF play_id # Null THEN HandlePlay(w2, play_id) ELSE w2

HandleNext(w) == advance_queue(w)

HandlePrevious(w) ==
    LET pos == w.audio.position_ms
    IN IF pos > PreviousRestartMs
       THEN update_state([w EXCEPT !.audio = AudioSeek(@, 0)],
                         [w.state EXCEPT !.position_ms = 0])
       ELSE retreat_queue(w)

\* Engine::set_queue
set_queue(w, items, start_index) ==
    update_queue(w, [items |-> items, index |-> start_index, shuffle |-> FALSE,
                     has_order |-> FALSE, shuffle_order |-> <<>>])

\* ---- one heartbeat iteration (the clock tick is not part of this model)
\* faulty: the next index is looked up in items even when shuffle is on
PreProbeId_skips_order(w) ==
    LET repeat == repeat_mode(w.state)
        q == w.queue
        next_idx == IF q.index + 1 < Len(q.items) THEN q.index + 1
                    ELSE IF repeat = "all" THEN 0 ELSE -1
    IN IF repeat = "one" \/ next_idx < 0 THEN Null ELSE Get(q.items, next_idx)

PreProbeId(w) ==
    LET repeat == repeat_mode(w.state)
        q == w.queue
        len == Len(q.items)
        idx == q.index
        next_idx == IF idx + 1 < len THEN idx + 1
                    ELSE IF repeat = "all" THEN 0 ELSE -1
    IN IF repeat = "one" \/ next_idx < 0 THEN Null
       ELSE IF q.shuffle
            THEN IF q.has_order /\ next_idx < Len(q.shuffle_order)
                 THEN Get(q.items, q.shuffle_order[next_idx + 1]) ELSE Null
            ELSE Get(q.items, next_idx)

HeartbeatBranch(w) ==
    IF w.audio.error THEN "hb_error"
    ELSE IF ~w.audio.playing /\ ~w.audio.paused
         THEN IF w.audio.finished THEN "hb_end" ELSE "hb_idle"
         ELSE "hb_sync"

\* a heartbeat without the error branch
Heartbeat_no_error_branch(w, probeOk) ==
    LET a == w.audio
        current_id == w.state.current_id
        recorded == IF current_id # Null
                    THEN record_play_event(w, current_id, a.position_ms) ELSE w
        synced == update_state(w, [w.state EXCEPT
                     !.position_ms = a.position_ms,
                     !.duration_ms = IF a.duration_ms > 0 THEN a.duration_ms ELSE @,
                     !.playing = a.playing /\ ~a.paused])
    IN IF ~a.playing /\ ~a.paused
       THEN IF a.finished THEN advance_queue(recorded) ELSE w
       ELSE synced

Heartbeat(w, probeOk) ==
    LET a == w.audio
        pos == a.position_ms
        dur == a.duration_ms
        current_id == w.state.current_id
        recorded == IF current_id # Null
                    THEN record_play_event(w, current_id, pos) ELSE w
        synced == update_state(w, [w.state EXCEPT
                     !.position_ms = pos,
                     !.duration_ms = IF dur > 0 THEN dur ELSE @,
                     !.playing = a.playing /\ ~a.paused])
        next_id == PreProbeId(w)
    IN IF a.error
       THEN update_state([w EXCEPT !.audio = AudioStop(@)],
                         [w.state EXCEPT !.playing = FALSE, !.error = ErrorText])
       ELSE IF ~a.playing /\ ~a.paused
            THEN IF a.finished THEN advance_queue(recorded) ELSE w
            ELSE IF a.playing /\ ~a.paused /\ dur > GaplessLeadMs
                    /\ pos > dur - GaplessLeadMs
                    /\ next_id # Null /\ Playable(next_id)
                 THEN [synced EXCEPT !.audio = AudioPrepareNext(@, next_id, probeOk)]
                 ELSE synced

\* ------------------------------------------------------------ inputs
UsedIds == {IdSeq[i] : i \in 1..MaxLen} \cup {MissingId}
QueueChoices == {SubSeq(IdSeq, 1, n) : n \in 0..MaxLen} \cup {<<IdSeq[1], MissingId>>}
SeekTargets == {0, PacketMs}
RepeatModes == {"off", "all", "one"}

\* with_backend: the flag is down and there is no handle; no loop exists yet.
NoRecord == [empty |-> TRUE]
CtlNew ==
    [flag |-> FALSE, handles |-> FALSE, sd |-> "idle", returns |-> 0,
     w_pc |-> "none", w_rec |-> NoRecord, w_box |-> <<>>,
     i_pc |-> "none", i_box |-> <<>>,
     h_pc |-> "none"]

\* No stats scroll exists; no record_play_event call is in progress.
NoCall == [pc |-> "idle", play_count |-> 0, total_ms |-> 0, done |-> 0]
StatsNew ==
    [exists |-> FALSE, play_count |-> 0, total_played_ms |-> 0,
     client |-> NoCall, heartbeat |-> NoCall]

\* No history scroll exists; the wall clock is at its first millisecond.
NoEntry == [media_id |-> Null, duration_played_ms |-> 0]
HistNew == [now |-> 0, entries |-> [t \in 0..MaxNow |-> NoEntry], events |-> 0]

\* An empty library: no path under /library holds a scroll.
NoScroll == [exists |-> FALSE, deleted |-> FALSE, data |-> <<>>]
LibNew == [items |-> [id \in {IdSeq[1], IdSeq[2]} |-> NoScroll],
           op |-> "none", id |-> Null, result |-> "none"]

\* No clock config is stored, the heartbeat has built no clock, nothing is
\* at /clock/tick or under /clock/pulses.
NoConfig == [absent |-> TRUE]
NoClock == [partitions |-> <<>>, pulses |-> <<>>]
PulseNames == {"beat", "bar", "phrase", "measure"}
ClkNew == [config |-> NoConfig, built |-> NoClock, tick |-> 0,
           tick_scroll |-> 0, pulse_scrolls |-> [n \in PulseNames |-> 0]]

\* LAST_ERROR is None and no C-ABI call has been made on this thread.
NoMessage == "none"
FfiNew == [last_error |-> NoMessage, call |-> "none", ret |-> "none"]

\* AudioEffect::new: no thread has been spawned and no thread is inside
\* play() or stop().
Callers == {"dispatcher", "heartbeat"}
NoPair == [dec |-> "none", out |-> "none", left |-> 0]
Idle == [op |-> "none", pc |-> "idle", handles |-> {}]
ThNew == [stop_signal |-> FALSE, playing |-> FALSE, paused |-> FALSE,
          finished |-> FALSE, error |-> FALSE, seek |-> FALSE, ring |-> 0,
          threads |-> {}, plays |-> 0,
          pair |-> [g \in 1..MaxPlays |-> NoPair],
          caller |-> [c \in Callers |-> Idle]]

\* No set_queue call is between its store and its put.
NoPut == [pending |-> FALSE, new_queue |-> <<>>]

\* Every mutex is free and no thread is inside an operation.
Locks == {"state", "queue", "ring"}
LockThreads == {"client", "dispatcher", "heartbeat", "decoder", "output"}
Free == "free"
NoOp == [op |-> "none", todo |-> <<>>, held |-> <<>>]
LkNew == [owner |-> [l \in Locks |-> Free], th |-> [t \in LockThreads |-> NoOp]]

\* --------------------------------------------------------- the sample ring
\* SampleRing: a fixed buffer with a read cursor, a write cursor and a
\* length.  Positions are 0-based as in the code; buf is a sequence, so
\* buf[p + 1] is the cell at position p.
RingSize == 3
MaxBlock == 4
Samples == {1, 2}
Silence == 0

SampleRing_new(capacity) ==
    [buf |-> [i \in 1..capacity |-> Silence], read_pos |-> 0, write_pos |-> 0, len |-> 0]

\* push: each sample is stored while the ring has a free cell, and skipped
\* otherwise.
RECURSIVE push(_, _)
push(r, samples) ==
    IF samples = <<>> THEN r
    ELSE push(IF r.len < Len(r.buf)
              THEN [r EXCEPT !.buf[r.write_pos + 1] = Head(samples),
                             !.write_pos = (r.write_pos + 1) % Len(r.buf),
                             !.len = r.len + 1]
              ELSE r,
              Tail(samples))

\* faulty: the cells read come out newest first
RECURSIVE take_newest_first(_, _)
take_newest_first(r, n) ==
    IF n = 0 THEN [ring |-> r, out |-> <<>>]
    ELSE LET rest == take_newest_first([r EXCEPT !.read_pos = (r.read_pos + 1) % Len(r.buf),
                                                 !.len = r.len - 1], n - 1)
         IN  [ring |-> rest.ring, out |-> rest.out \o <<r.buf[r.read_pos + 1]>>]

\* The first loop of pull: n cells are read from the read cursor on.
RECURSIVE take(_, _)
take(r, n) ==
    IF n = 0 THEN [ring |-> r, out |-> <<>>]
    ELSE LET rest == take([r EXCEPT !.read_pos = (r.read_pos + 1) % Len(r.buf),
                                    !.len = r.len - 1], n - 1)
         IN  [ring |-> rest.ring, out |-> <<r.buf[r.read_pos + 1]>> \o rest.out]

\* pull into a slice of outLen samples: n = min(outLen, len) samples are
\* read, the rest of the slice is filled with 0.0, n is returned.
pull(r, outLen) ==
    LET n == IF outLen < r.len THEN outLen ELSE r.len
        t == take(r, n)
    IN  [ring |-> t.ring, out |-> t.out \o [i \in 1..(outLen - n) |-> Silence], n |-> n]

\* faulty: only the length is reset
clear_keeps_cursors(r) == [r EXCEPT !.len = 0]

clear(r) == [r EXCEPT !.read_pos = 0, !.write_pos = 0, !.len = 0]

\* The ring of one pipeline, the last call on it (op) with the block it
\* pushed or the slice and count it pulled, and the decoder thread at its
\* push loop.
RgNew == [ring |-> SampleRing_new(RingSize), op |-> "new", out |-> <<>>, n |-> 0,
          block |-> <<>>, dec |-> "decode", stop_signal |-> FALSE]

\* No call of generate_shuffle_order has been made.
ShNew == [len |-> 0, current_index |-> 0, order |-> <<>>]

\* ------------------------------------------------------------ the machine
Init ==
    /\ state = default_playback_state
    /\ queue = default_queue_state
    /\ audio = AudioNew
    /\ history = <<>>
    /\ store = [playback_state |-> default_playback_state,
                queue_current |-> default_queue_state]
    /\ last = "other"
    /\ trail = [tag |-> "none", k |-> 0]
    /\ ctl = CtlNew
    /\ stats = StatsNew
    /\ hist = HistNew
    /\ lib = LibNew
    /\ clk = ClkNew
    /\ ffi = FfiNew
    /\ th = ThNew
    /\ lk = LkNew
    /\ sq = NoPut
    /\ rg = RgNew
    /\ sh = ShNew

TrackedOps == {"next", "previous", "previous_restart", "stop", "hb_error", "hb_end",
               "dropped", "play_miss"}
Label(op) == IF op \in TrackedOps THEN op ELSE "other"

Writes(w, op) ==
    /\ state' = w.state
    /\ queue' = w.queue
    /\ audio' = w.audio
    /\ history' = w.history
    /\ store' = w.store
    /\ last' = Label(op)

Becomes(w, op) ==
    /\ Writes(w, op)
    /\ UNCHANGED <<trail, ctl, stats, side>>

AudioBecomes(a, op) ==
    /\ audio' = a
    /\ last' = Label(op)
    /\ UNCHANGED <<state, queue, history, store, trail, ctl, stats, side>>

\* -- the command dispatcher, one command per step
CmdPlay == \E id \in UsedIds : Becomes(HandlePlay(World, id), "play")
CmdPause == Becomes(HandlePause(World), "pause")
CmdResume == Becomes(HandleResume(World), "resume")
CmdStop == Becomes(HandleStop(World), "stop")
CmdSeek == \E ms \in SeekTargets : Becomes(HandleSeek(World, ms), "seek")
CmdNext == Becomes(HandleNext(World), "next")
CmdPrevious ==
    Becomes(HandlePrevious(World),
            IF audio.position_ms > PreviousRestartMs THEN "previous_restart"
            ELSE "previous")
CmdSetShuffle ==
    \E enabled \in BOOLEAN :
      \E js \in RngDraws(Len(Others(0, Len(queue.items), queue.index))) :
        Becomes(HandleSetShuffle(World, enabled, js),
                IF enabled THEN "shuffle_on" ELSE "shuffle_off")
CmdSetRepeat == \E mode \in RepeatModes : Becomes(HandleSetRepeat(World, mode), "set_repeat")

\* -- a client thread
SetQueue ==
    \E items \in QueueChoices, start_index \in 0..MaxStart :
        Becomes(set_queue(World, items, start_index), "set_queue")

\* -- the heartbeat thread
\* next_probe is read by play() alone, and only to skip its own probe, which
\* decides nothing else here; this machine's files are not probed ahead.
ProbeOutcomes == {FALSE}

HeartbeatTick ==
    /\ (HeartbeatBranch(World) = "hb_end" /\ state.current_id # Null)
          => Len(history) < MaxHistory
    /\ \E probeOk \in ProbeOutcomes :
          Becomes(Heartbeat(World, probeOk), HeartbeatBranch(World))

\* -- the decoder thread of the current track
\* File::open, the probe and the codec: the duration becomes known.
DecoderOpen ==
    /\ audio.dec = "open"
    /\ AudioBecomes([audio EXCEPT !.duration_ms = TrackMs, !.dec = "run"], "decoder")

\* faulty: the request is read with a load and stays pending
DecoderSeek_keeps_request ==
    /\ audio.dec = "run"
    /\ ~audio.stop_signal
    /\ audio.seek_to_ms > 0
    /\ audio.position_ms # audio.seek_to_ms \/ audio.ring # 0
    /\ AudioBecomes([audio EXCEPT !.ring = 0, !.position_ms = audio.seek_to_ms], "decoder")

\* The seek request at the top of the loop: swap seek_to_ms to 0 and, when the
\* format accepts the seek, clear the ring and move the position.
DecoderSeek ==
    /\ audio.dec = "run"
    /\ ~audio.stop_signal
    /\ audio.seek_to_ms > 0
    /\ \E seekOk \in BOOLEAN :
         AudioBecomes(
            IF seekOk
            THEN [audio EXCEPT !.seek_to_ms = 0, !.ring = 0,
                               !.position_ms = audio.seek_to_ms]
            ELSE [audio EXCEPT !.seek_to_ms = 0],
            "decoder")

\* One packet: past the pause wait, read, decode, store the position, push
\* once the ring has room for the block.
DecoderPacket ==
    /\ audio.dec = "run"
    /\ ~audio.stop_signal
    /\ ~audio.paused
    /\ audio.position_ms < TrackMs
    /\ audio.ring < RingCap
    /\ LET pos == IF audio.position_ms + PacketMs > TrackMs THEN TrackMs
                  ELSE audio.position_ms + PacketMs
       IN AudioBecomes([audio EXCEPT !.position_ms = pos, !.ring = @ + 1], "decoder")

\* next_packet reports the end of the stream: the thread stores finished.
DecoderEof ==
    /\ audio.dec = "run"
    /\ ~audio.paused
    /\ audio.position_ms >= TrackMs
    /\ AudioBecomes([audio EXCEPT !.finished = TRUE, !.dec = "none"], "decoder")

\* decode_to_ring returns Err: the thread stores error, then finished.
DecoderFail ==
    /\ audio.dec = "open" \/ (audio.dec = "run" /\ ~audio.paused)
    /\ AudioBecomes([audio EXCEPT !.error = TRUE, !.finished = TRUE, !.dec = "none"],
                    "decoder_error")

\* -- the output thread of the current track
OutputStart ==
    /\ audio.out = "start"
    /\ AudioBecomes([audio EXCEPT !.out = "run"], "output")

\* output_from_ring returns Err before the drain loop: error is stored,
\* playing is left as it was.
OutputFail ==
    /\ audio.out = "start"
    /\ AudioBecomes([audio EXCEPT !.error = TRUE, !.out = "none"], "output_error")

\* The device callback pulls one block unless paused.
OutputCallback ==
    /\ audio.out = "run"
    /\ ~audio.paused
    /\ audio.ring > 0
    /\ AudioBecomes([audio EXCEPT !.ring = @ - 1], "output")

\* The drain loop's exit, then playing = false.
OutputDrained ==
    /\ audio.out = "run"
    /\ audio.ring = 0
    /\ audio.stop_signal \/ audio.finished \/ (~audio.playing /\ ~audio.finished)
    /\ AudioBecomes([audio EXCEPT !.playing = FALSE, !.out = "none"], "output")

Next ==
    \/ CmdPlay \/ CmdPause \/ CmdResume \/ CmdStop \/ CmdSeek
    \/ CmdNext \/ CmdPrevious \/ CmdSetShuffle \/ CmdSetRepeat
    \/ SetQueue
    \/ HeartbeatTick
    \/ DecoderOpen \/ DecoderSeek \/ DecoderPacket \/ DecoderEof \/ DecoderFail
    \/ OutputStart \/ OutputFail \/ OutputCallback \/ OutputDrained

Spec == Init /\ [][Next]_vars

\* =============================================== the command path, by record
\* A record on /amsal/playback/command is a JSON object; from_value is serde's
\* internally tagged enum: the tag "action" in lowercase, the variant's fields
\* present and of their type, any other field ignored.  Some(cmd) is <<cmd>>.
from_value(v) ==
    IF "action" \notin DOMAIN v THEN <<>>
    ELSE IF v.action \in {"pause", "resume", "stop", "next", "previous"}
         THEN <<[action |-> v.action]>>
    ELSE IF v.action = "play"
         THEN IF "id" \in DOMAIN v THEN <<[action |-> "play", id |-> v.id]>> ELSE <<>>
    ELSE IF v.action = "seek"
         THEN IF "position_ms" \in DOMAIN v /\ v.position_ms \in Nat
              THEN <<[action |-> "seek", position_ms |-> v.position_ms]>> ELSE <<>>
    ELSE IF v.action = "setvolume"
         THEN IF "volume" \in DOMAIN v /\ v.volume \in Int
              THEN <<[action |-> "setvolume", volume |-> v.volume]>> ELSE <<>>
    ELSE IF v.action = "setshuffle"
         THEN IF "enabled" \in DOMAIN v /\ v.enabled \in BOOLEAN
              THEN <<[action |-> "setshuffle", enabled |-> v.enabled]>> ELSE <<>>
    ELSE IF v.action = "setrepeat"
         THEN IF "mode" \in DOMAIN v /\ v.mode \in RepeatModes
              THEN <<[action |-> "setrepeat", mode |-> v.mode]>> ELSE <<>>
    ELSE <<>>

\* handle_playback's match; js are the draws a SetShuffle makes.
handle_playback(w, cmd, js) ==
    CASE cmd.action = "play" -> HandlePlay(w, cmd.id)
      [] cmd.action = "pause" -> HandlePause(w)
      [] cmd.action = "resume" -> HandleResume(w)
      [] cmd.action = "stop" -> HandleStop(w)
      [] cmd.action = "seek" -> HandleSeek(w, cmd.position_ms)
      [] cmd.action = "setvolume" -> HandleSetVolume(w, cmd.volume)
      [] cmd.action = "next" -> HandleNext(w)
      [] cmd.action = "previous" -> HandlePrevious(w)
      [] cmd.action = "setshuffle" -> HandleSetShuffle(w, cmd.enabled, js)
      [] cmd.action = "setrepeat" -> HandleSetRepeat(w, cmd.mode)

\* faulty: a record that is no command stops the playback
Dispatch_bad_record_stops(w, v, js) ==
    LET cmd == from_value(v)
    IN IF cmd = <<>> THEN HandleStop(w) ELSE handle_playback(w, cmd[1], js)

\* One turn of the watcher's loop body for the record v.
Dispatch(w, v, js) ==
    LET cmd == from_value(v)
    IN IF cmd = <<>> THEN w ELSE handle_playback(w, cmd[1], js)

\* ---- the records written to the command path
VolumeInputs == {-250, 1500}
FarSeekTargets == {TrackMs + PacketMs}

CommandRecords ==
    {[action |-> "play", id |-> i] : i \in UsedIds \cup {PathlessId}}
    \cup {[action |-> a] : a \in {"pause", "resume", "stop", "next", "previous"}}
    \cup {[action |-> "seek", position_ms |-> ms] : ms \in FarSeekTargets}
    \cup {[action |-> "setvolume", volume |-> v] : v \in VolumeInputs}
    \cup {[action |-> "setshuffle", enabled |-> b] : b \in BOOLEAN}
    \cup {[action |-> "setrepeat", mode |-> m] : m \in RepeatModes}

\* Not commands: the shutdown sentinels, an unknown action, a missing payload,
\* a payload of the wrong type, an unknown repeat mode, a tag in another case.
BadRecords ==
    {[action |-> "noop"], [shutdown |-> TRUE], [action |-> "volume", volume |-> 500],
     [action |-> "play"], [action |-> "seek", position_ms |-> -1],
     [action |-> "setrepeat", mode |-> "once"], [action |-> "Stop"]}

Records == CommandRecords \cup BadRecords

NoTrail == [tag |-> "none", k |-> 0]

NextTrail(v) ==
    IF v = [action |-> "setshuffle", enabled |-> TRUE] /\ ~queue.shuffle
    THEN [tag |-> "enabled", k |-> queue.index]
    ELSE IF v = [action |-> "setshuffle", enabled |-> FALSE] /\ trail.tag = "enabled"
         THEN [tag |-> "restored", k |-> trail.k]
         ELSE NoTrail

\* What the turn for the record v did, for the properties to speak of.
CommandLabel(v) ==
    IF from_value(v) = <<>> THEN "dropped"
    ELSE IF v.action = "play" /\ ~Playable(v.id) THEN "play_miss"
         ELSE "command"

CommandStep(v) ==
    \E js \in RngDraws(Len(Others(0, Len(queue.items), queue.index))) :
        /\ Writes(Dispatch(World, v, js), CommandLabel(v))
        /\ trail' = NextTrail(v)
        /\ UNCHANGED <<ctl, stats, side>>

CommandWatcher == \E v \in Records : CommandStep(v)

ClientSetQueue ==
    \E items \in QueueChoices, start_index \in 0..MaxStart :
        /\ Writes(set_queue(World, items, start_index), "set_queue")
        /\ trail' = NoTrail
        /\ UNCHANGED <<ctl, stats, side>>

CommandNext == CommandWatcher \/ ClientSetQueue

CommandSpec == Init /\ [][CommandNext]_vars

\* ========================================== start, the loops and shutdown
\* A watcher's channel exists from the thread's own call of shell.on: a put
\* made before that reaches no receiver, and neither does one made after the
\* loop has left.
Subscribed(pc) == pc \in {"wait", "handle"}
Deliver(pc, box, rec) == IF Subscribed(pc) THEN Append(box, rec) ELSE box

CommandSentinel == [action |-> "noop"]
ImportSentinel == [shutdown |-> TRUE]
ImportRequest == [dir |-> "music"]

\* start(): nothing when there are handles, else the three threads are spawned.
start(c) ==
    IF c.handles THEN c
    ELSE [c EXCEPT !.handles = TRUE,
                   !.w_pc = "spawned", !.w_rec = NoRecord, !.w_box = <<>>,
                   !.i_pc = "spawned", !.i_box = <<>>,
                   !.h_pc = "top"]

\* The frame of a step that moves a loop or a caller and nothing else.
CtlBecomes(c) ==
    /\ ctl' = c
    /\ UNCHANGED <<state, queue, audio, history, store, last, trail, stats, side>>

EngineStart ==
    /\ ctl.sd = "idle"
    /\ CtlBecomes(start(ctl))

\* -- shutdown(), statement by statement
ShutdownStoreFlag ==
    /\ ctl.sd = "idle"
    /\ ctl.returns < MaxShutdowns
    /\ CtlBecomes([ctl EXCEPT !.flag = TRUE, !.sd = "flagged"])

ShutdownAudioStop ==
    /\ ctl.sd = "flagged"
    /\ audio' = AudioStop(audio)
    /\ ctl' = [ctl EXCEPT !.sd = "stopped"]
    /\ last' = "other"
    /\ UNCHANGED <<state, queue, history, store, trail, stats, side>>

ShutdownSentinels ==
    \/ /\ ctl.sd = "stopped"
       /\ CtlBecomes([ctl EXCEPT !.w_box = Deliver(ctl.w_pc, @, CommandSentinel),
                                 !.sd = "sent_command"])
    \/ /\ ctl.sd = "sent_command"
       /\ CtlBecomes([ctl EXCEPT !.i_box = Deliver(ctl.i_pc, @, ImportSentinel),
                                 !.sd = "joining"])

\* handles.drain(..) and join: returns once every drained thread has returned.
ShutdownJoin ==
    /\ ctl.sd = "joining"
    /\ ctl.handles => (ctl.w_pc = "done" /\ ctl.i_pc = "done" /\ ctl.h_pc = "done")
    /\ CtlBecomes([ctl EXCEPT !.handles = FALSE, !.sd = "idle",
                              !.returns = @ + 1,
                              !.w_pc = "none", !.i_pc = "none", !.h_pc = "none",
                              !.w_box = <<>>, !.i_box = <<>>])

\* -- clients writing to the watched paths
LifecycleRecords == {[action |-> "play", id |-> IdSeq[1]]} \cup BadRecords

ClientCommand ==
    \E v \in LifecycleRecords :
        /\ Len(ctl.w_box) < MaxBox
        /\ CtlBecomes([ctl EXCEPT !.w_box = Deliver(ctl.w_pc, @, v)])

ClientImport ==
    /\ Len(ctl.i_box) < MaxBox
    /\ CtlBecomes([ctl EXCEPT !.i_box = Deliver(ctl.i_pc, @, ImportRequest)])

\* -- the command watcher: shell.on, then for each record the flag and the
\* command; the handling is a step of its own, after the flag was read.
WatcherSubscribe ==
    /\ ctl.w_pc = "spawned"
    /\ \E ok \in BOOLEAN :
          CtlBecomes([ctl EXCEPT !.w_pc = IF ok THEN "wait" ELSE "done"])

WatcherTake ==
    /\ ctl.w_pc = "wait"
    /\ ctl.w_box # <<>>
    /\ CtlBecomes(IF ctl.flag
                  THEN [ctl EXCEPT !.w_pc = "done", !.w_box = <<>>]
                  ELSE [ctl EXCEPT !.w_pc = "handle", !.w_rec = Head(ctl.w_box),
                                   !.w_box = Tail(@)])

WatcherHandle ==
    /\ ctl.w_pc = "handle"
    /\ \E js \in RngDraws(Len(Others(0, Len(queue.items), queue.index))) :
          Writes(Dispatch(World, ctl.w_rec, js), CommandLabel(ctl.w_rec))
    /\ ctl' = [ctl EXCEPT !.w_pc = "wait", !.w_rec = NoRecord]
    /\ UNCHANGED <<trail, stats, side>>

\* -- the import watcher; what a request does to the library is not modelled
ImportSubscribe ==
    /\ ctl.i_pc = "spawned"
    /\ \E ok \in BOOLEAN :
          CtlBecomes([ctl EXCEPT !.i_pc = IF ok THEN "wait" ELSE "done"])

ImportTake ==
    /\ ctl.i_pc = "wait"
    /\ ctl.i_box # <<>>
    /\ CtlBecomes(IF ctl.flag
                  THEN [ctl EXCEPT !.i_pc = "done", !.i_box = <<>>]
                  ELSE [ctl EXCEPT !.i_pc = "handle", !.i_box = Tail(@)])

ImportHandle ==
    /\ ctl.i_pc = "handle"
    /\ CtlBecomes([ctl EXCEPT !.i_pc = "wait"])

\* -- the heartbeat: the flag at the loop's head, the sleep, the flag again,
\* then the body.
HeartbeatLoopHead ==
    /\ ctl.h_pc = "top"
    /\ CtlBecomes([ctl EXCEPT !.h_pc = IF ctl.flag THEN "done" ELSE "slept"])

HeartbeatAfterSleep ==
    /\ ctl.h_pc = "slept"
    /\ CtlBecomes([ctl EXCEPT !.h_pc = IF ctl.flag THEN "done" ELSE "body"])

HeartbeatBody ==
    /\ ctl.h_pc = "body"
    /\ \E probeOk \in ProbeOutcomes :
          LET w == Heartbeat(World, probeOk)
          IN Writes([w EXCEPT !.history = SubSeq(@, 1, IF Len(@) > MaxHistory
                                                        THEN MaxHistory ELSE Len(@))],
                    HeartbeatBranch(World))
    /\ ctl' = [ctl EXCEPT !.h_pc = "top"]
    /\ UNCHANGED <<trail, stats, side>>

ThreadStep ==
    \/ WatcherSubscribe \/ WatcherTake \/ WatcherHandle
    \/ ImportSubscribe \/ ImportTake \/ ImportHandle
    \/ HeartbeatLoopHead \/ HeartbeatAfterSleep \/ HeartbeatBody

ShutdownStep == ShutdownAudioStop \/ ShutdownSentinels \/ ShutdownJoin

LifecycleNext ==
    \/ EngineStart \/ ShutdownStoreFlag \/ ShutdownStep
    \/ ClientCommand \/ ClientImport
    \/ ThreadStep

LifecycleSpec == Init /\ [][LifecycleNext]_vars

\* Every spawned thread keeps running, and a caller inside shutdown() goes on
\* to its next statement; clients owe no call.
FairLifecycleSpec ==
    /\ LifecycleSpec
    /\ WF_vars(WatcherSubscribe) /\ WF_vars(WatcherTake) /\ WF_vars(WatcherHandle)
    /\ WF_vars(ImportSubscribe) /\ WF_vars(ImportTake) /\ WF_vars(ImportHandle)
    /\ WF_vars(HeartbeatLoopHead) /\ WF_vars(HeartbeatAfterSleep)
    /\ WF_vars(HeartbeatBody)
    /\ WF_vars(ShutdownStep)

\* ================================================= record_play_event, by step
\* Two threads record plays of the same id: a client through
\* Engine::record_play and the heartbeat at a natural end.  Each call puts the
\* history scroll, gets /stats/<id>, and puts it back with one more play.
RecordThreads == {"client", "heartbeat"}
PlayedMs == TrackMs

\* shell.get(stats_path): (play_count, total_played_ms), (0, 0) without a scroll
StatsRead(st) ==
    IF st.exists THEN <<st.play_count, st.total_played_ms>> ELSE <<0, 0>>

StatsBecomes(st) ==
    /\ stats' = st
    /\ UNCHANGED <<state, queue, audio, store, last, trail, ctl, side>>

RecordHistoryPut(t) ==
    /\ stats[t].pc = "idle"
    /\ stats[t].done < MaxCalls
    /\ history' = IF Len(history) < MaxHistory
                  THEN Append(history, [media_id |-> IdSeq[1],
                                        duration_played_ms |-> PlayedMs])
                  ELSE history
    /\ StatsBecomes([stats EXCEPT ![t].pc = "get"])

RecordStatsGet(t) ==
    /\ stats[t].pc = "get"
    /\ StatsBecomes([stats EXCEPT ![t].pc = "put",
                                  ![t].play_count = StatsRead(stats)[1],
                                  ![t].total_ms = StatsRead(stats)[2]])
    /\ UNCHANGED history

RecordStatsPut(t) ==
    /\ stats[t].pc = "put"
    /\ StatsBecomes([stats EXCEPT !.exists = TRUE,
                                  !.play_count = stats[t].play_count + 1,
                                  !.total_played_ms = stats[t].total_ms + PlayedMs,
                                  ![t] = [NoCall EXCEPT !.done = stats[t].done + 1]])
    /\ UNCHANGED history

StatsNext ==
    \E t \in RecordThreads :
        RecordHistoryPut(t) \/ RecordStatsGet(t) \/ RecordStatsPut(t)

StatsSpec == Init /\ [][StatsNext]_vars

\* ============================================ the history, by its path key
\* record_play_event puts the event at /history/<now>, now being the wall
\* clock in milliseconds; a put on a path that exists replaces its scroll.
history_put(h, id, ms) ==
    [h EXCEPT !.entries[h.now] = [media_id |-> id, duration_played_ms |-> ms],
              !.events = @ + 1]

\* shell.all(HISTORY_PREFIX): the paths that hold a scroll
history_paths(h) == {t \in 0..MaxNow : h.entries[t] # NoEntry}

HistBecomes(h) ==
    /\ hist' = h
    /\ UNCHANGED <<core, lib, clk, ffi, th, lk, sq, rg, sh>>

DurationsPlayed == {PacketMs, TrackMs + PacketMs}

RecordPlay ==
    \E id \in {IdSeq[1], IdSeq[2]}, ms \in DurationsPlayed :
        /\ hist.events < MaxEvents
        /\ HistBecomes(history_put(hist, id, ms))

WallClock ==
    /\ hist.now < MaxNow
    /\ HistBecomes([hist EXCEPT !.now = @ + 1])

HistoryNext == RecordPlay \/ WallClock

HistorySpec == Init /\ [][HistoryNext]_vars

\* ================================================================ the library
\* A string is a sequence of characters; to_lowercase works character by
\* character and contains() looks for a contiguous run.
Lower(ch) == IF ch = "A" THEN "a" ELSE IF ch = "B" THEN "b" ELSE ch
to_lowercase(str) == [i \in 1..Len(str) |-> Lower(str[i])]
contains(str, q) ==
    \E i \in 0..(Len(str) - Len(q)) : SubSeq(str, i + 1, i + Len(q)) = q

LibIds == {IdSeq[1], IdSeq[2]}
Titles == {<<"A", "b">>, <<"b", "a">>, <<"B">>, <<"a", "B">>}
Queries == {<<"a">>, <<"A", "B">>, <<"b">>, <<>>}
ItemData(id, title) == [id |-> id, title |-> title]

\* shell.put(path, data): a scroll with this data and fresh metadata
library_put(l, id, data) ==
    [l EXCEPT !.items[id] = [exists |-> TRUE, deleted |-> FALSE, data |-> data]]

add_to_library(l, id, data) ==
    [library_put(l, id, data) EXCEPT !.op = "add", !.id = id, !.result = "ok"]

\* faulty: removes the scroll instead of marking it
delete_from_library_removes(l, id) ==
    IF l.items[id].exists
    THEN [l EXCEPT !.items[id] = NoScroll,
                   !.op = "delete", !.id = id, !.result = "ok"]
    ELSE [l EXCEPT !.op = "delete", !.id = id, !.result = "err"]

delete_from_library(l, id) ==
    IF l.items[id].exists
    THEN [l EXCEPT !.items[id].deleted = TRUE,
                   !.op = "delete", !.id = id, !.result = "ok"]
    ELSE [l EXCEPT !.op = "delete", !.id = id, !.result = "err"]

\* faulty: lists every scroll under the prefix
list_library_all(l) == {id \in LibIds : l.items[id].exists}

list_library(l) == {id \in LibIds : l.items[id].exists /\ ~l.items[id].deleted}

search_library(l, query) ==
    {l.items[id].data : id \in
        {i \in LibIds : /\ l.items[i].exists
                        /\ ~l.items[i].deleted
                        /\ contains(to_lowercase(l.items[i].data.title),
                                    to_lowercase(query))}}

\* the field is "title", the one field these scrolls have besides the id
filter_library(l, value) ==
    {l.items[id].data : id \in
        {i \in LibIds : /\ l.items[i].exists
                        /\ ~l.items[i].deleted
                        /\ to_lowercase(l.items[i].data.title) = to_lowercase(value)}}

LibBecomes(l) ==
    /\ lib' = l
    /\ UNCHANGED <<core, hist, clk, ffi, th, lk, sq, rg, sh>>

AddToLibrary(id) ==
    \E title \in Titles : LibBecomes(add_to_library(lib, id, ItemData(id, title)))

DeleteFromLibrary(id) == LibBecomes(delete_from_library(lib, id))

LibraryNext == \E id \in LibIds : AddToLibrary(id) \/ DeleteFromLibrary(id)

LibrarySpec == Init /\ [][LibraryNext]_vars

\* ============================================================ seek requests
\* Seeks, pauses and plays by command against the decoder and output threads.
SeekNext ==
    \/ CmdPlay \/ CmdSeek \/ CmdPause \/ CmdResume
    \/ DecoderOpen \/ DecoderSeek \/ DecoderPacket \/ DecoderEof
    \/ OutputStart \/ OutputCallback \/ OutputDrained

SeekSpec == Init /\ [][SeekNext]_vars

\* ====================================================== the sample ring
RgBecomes(g) ==
    /\ rg' = g
    /\ UNCHANGED <<core, hist, lib, clk, ffi, th, lk, sq, sh>>

\* The blocks a caller pushes and the slices the output callback hands in.
MaxOut == 3
Blocks == UNION {[1..n -> Samples] : n \in 1..MaxBlock}
OutLens == 0..MaxOut

\* The samples a ring holds, oldest first.
Contents(r) == [i \in 1..r.len |-> r.buf[((r.read_pos + i - 1) % Len(r.buf)) + 1]]

RingPush(b) ==
    RgBecomes([rg EXCEPT !.ring = push(rg.ring, b), !.op = "push", !.block = b])

RingPull(k) ==
    LET p == pull(rg.ring, k)
    IN  RgBecomes([rg EXCEPT !.ring = p.ring, !.out = p.out, !.n = p.n, !.op = "pull"])

RingClear ==
    RgBecomes([rg EXCEPT !.ring = clear(rg.ring), !.op = "clear"])

RingNext ==
    \/ \E b \in Blocks : RingPush(b)
    \/ \E k \in OutLens : RingPull(k)
    \/ RingClear

RingSpec == Init /\ [][RingNext]_vars

\* ------------------------------------------- the decoder's push loop
\* faulty: the block is pushed without looking at the free space
push_without_room_check(g) ==
    [g EXCEPT !.ring = push(g.ring, g.block), !.op = "push", !.dec = "decode"]

\* One pass of the loop under the ring lock: the block is pushed when the
\* free space holds all of it, else the lock is dropped for the sleep.
push_when_room(g) ==
    LET available == Len(g.ring.buf) - g.ring.len
    IN  IF available >= Len(g.block)
        THEN [g EXCEPT !.ring = push(g.ring, g.block), !.op = "push", !.dec = "decode"]
        ELSE [g EXCEPT !.dec = "sleep"]

\* After the sleep: return when stop_signal is set, else the next pass.
after_backoff(g) ==
    IF g.stop_signal THEN [g EXCEPT !.dec = "returned"]
    ELSE [g EXCEPT !.dec = "lock"]

\* decode_to_ring between two packets: the stop test, then a decoded block.
BlockDecoded(b) ==
    /\ rg.dec = "decode"
    /\ RgBecomes(IF rg.stop_signal THEN [rg EXCEPT !.dec = "returned"]
                 ELSE [rg EXCEPT !.block = b, !.dec = "lock"])

PushWhenRoom ==
    /\ rg.dec = "lock"
    /\ RgBecomes(push_when_room(rg))

AfterBackoff ==
    /\ rg.dec = "sleep"
    /\ RgBecomes(after_backoff(rg))

\* the output callback pulls a slice
CallbackPull(k) ==
    /\ rg.dec # "returned"
    /\ RingPull(k)

\* stop(): the flag, and the ring cleared while the decoder may still run
RgStopSignal ==
    /\ ~rg.stop_signal
    /\ RgBecomes([rg EXCEPT !.stop_signal = TRUE])

RgStopClear ==
    /\ rg.stop_signal
    /\ rg.dec # "returned"
    /\ RingClear

\* play() after the join: the flag reset, the ring cleared, a new decoder
RgPlay ==
    /\ rg.dec = "returned"
    /\ RgBecomes([rg EXCEPT !.ring = clear(rg.ring), !.op = "clear", !.dec = "decode",
                            !.block = <<>>, !.stop_signal = FALSE])

PushNext ==
    \/ \E b \in Blocks : BlockDecoded(b)
    \/ PushWhenRoom
    \/ AfterBackoff
    \/ \E k \in OutLens : CallbackPull(k)
    \/ RgStopSignal
    \/ RgStopClear
    \/ RgPlay

PushSpec == Init /\ [][PushNext]_vars

\* ============================================ generate_shuffle_order alone
MaxShuffleLen == 5

\* One call with a length, a current index (in range, or the first index
\* past the end) and the draws of its generator.
ShuffleCall(len, k) ==
    \E js \in RngDraws(Len(Others(0, len, k))) :
        /\ sh' = [len |-> len, current_index |-> k,
                  order |-> generate_shuffle_order(len, k, js)]
        /\ UNCHANGED <<core, hist, lib, clk, ffi, th, lk, sq, rg>>

ShuffleNext == \E len \in 1..MaxShuffleLen : \E k \in 0..len : ShuffleCall(len, k)

ShuffleSpec == Init /\ [][ShuffleNext]_vars

\* ================================================== the gapless pre-probe
\* The heartbeat where probe_audio_format may succeed, so that prepare_next
\* stores what it probed.
HeartbeatPreProbe ==
    /\ (HeartbeatBranch(World) = "hb_end" /\ state.current_id # Null)
          => Len(history) < MaxHistory
    /\ \E probeOk \in BOOLEAN :
          Becomes(Heartbeat(World, probeOk), HeartbeatBranch(World))

ProbeNext ==
    \/ CmdPlay \/ CmdNext \/ CmdSetShuffle \/ CmdSetRepeat
    \/ SetQueue
    \/ HeartbeatPreProbe
    \/ DecoderOpen \/ DecoderPacket \/ DecoderEof
    \/ OutputStart \/ OutputCallback \/ OutputDrained

ProbeSpec == Init /\ [][ProbeNext]_vars

\* ===================================================== natural track ends
\* The heartbeat iteration of the machine, recording up to MaxEnds events.
EndHeartbeat ==
    /\ (HeartbeatBranch(World) = "hb_end" /\ state.current_id # Null)
          => Len(history) < MaxEnds
    /\ \E probeOk \in ProbeOutcomes :
          Becomes(Heartbeat(World, probeOk), HeartbeatBranch(World))

\* Tracks started by command or from a queue, played to their end.
EndNext ==
    \/ CmdPlay \/ SetQueue
    \/ EndHeartbeat
    \/ DecoderOpen \/ DecoderPacket \/ DecoderEof
    \/ OutputStart \/ OutputCallback \/ OutputDrained

EndSpec == Init /\ [][EndNext]_vars

\* ============================================ one track, played to its end
\* The client sets the queue and the repeat mode and gives one play command;
\* after that only the engine's own threads run.
BeforePlay == audio.path = Null

\* The heartbeat iteration, with the history kept to its last MaxEnds events.
FinishHeartbeat ==
    \E probeOk \in ProbeOutcomes :
        LET w == Heartbeat(World, probeOk)
        IN  Becomes([w EXCEPT !.history = IF Len(@) > MaxEnds THEN Tail(@) ELSE @],
                    HeartbeatBranch(World))

FinishNext ==
    \/ BeforePlay /\ (CmdPlay \/ SetQueue \/ CmdSetRepeat)
    \/ FinishHeartbeat
    \/ DecoderOpen \/ DecoderPacket \/ DecoderEof
    \/ OutputStart \/ OutputCallback \/ OutputDrained

FinishSpec == Init /\ [][FinishNext]_vars

\* The heartbeat thread loops for as long as the engine lives, and the
\* decoder and output threads run until they return.
FairFinishSpec ==
    /\ FinishSpec
    /\ WF_vars(FinishHeartbeat)
    /\ WF_vars(DecoderOpen) /\ WF_vars(DecoderPacket) /\ WF_vars(DecoderEof)
    /\ WF_vars(OutputStart) /\ WF_vars(OutputCallback) /\ WF_vars(OutputDrained)

\* ================================================== the volume, both copies
InRangeVolumes == {0, 500, 1000}

CmdSetVolume == \E v \in InRangeVolumes : Becomes(HandleSetVolume(World, v), "set_volume")

VolumeNext ==
    \/ CmdSetVolume \/ CmdPlay \/ CmdStop \/ CmdNext
    \/ SetQueue
    \/ HeartbeatTick
    \/ DecoderOpen \/ DecoderPacket \/ DecoderEof
    \/ OutputStart \/ OutputCallback \/ OutputDrained

VolumeSpec == Init /\ [][VolumeNext]_vars

\* ============================================================== the locks
\* Each operation as the sequence of lock() calls and guard drops it makes,
\* in program order.
Acq(l) == [do |-> "acq", lock |-> l]
Rel(l) == [do |-> "rel", lock |-> l]
Hold(l) == <<Acq(l), Rel(l)>>

\* update_state / replace_state: the put is made under the state lock
update_state_locks == Hold("state")
update_queue_locks == Hold("queue")
\* stop(): samples.lock().clear();  play(): stop(), then samples.lock().clear()
audio_stop_locks == Hold("ring")
audio_play_locks == Hold("ring") \o Hold("ring")

\* Play with the item found: audio.play, the settings snapshot, replace_state
handle_play_locks == audio_play_locks \o Hold("state") \o update_state_locks

\* faulty: the queue guard is still alive when the next track is played
advance_queue_keeps_guard(branch) ==
    Hold("state") \o <<Acq("queue")>> \o
        (IF branch = "empty" THEN <<Rel("queue")>>
         ELSE IF branch = "end"
              THEN audio_stop_locks \o update_state_locks \o <<Rel("queue")>>
         ELSE handle_play_locks \o <<Rel("queue")>>)

\* advance_queue by branch: empty queue, repeat one, past the end, moved
advance_queue_locks(branch) ==
    Hold("state") \o <<Acq("queue")>> \o
        (IF branch = "empty" THEN <<Rel("queue")>>
         ELSE IF branch = "end"
              THEN <<Rel("queue")>> \o audio_stop_locks \o update_state_locks
         ELSE <<Rel("queue")>> \o handle_play_locks)

AdvanceBranches == {"empty", "one", "end", "moved"}

retreat_queue_locks(branch) ==
    <<Acq("queue"), Rel("queue")>> \o (IF branch = "empty" THEN <<>> ELSE handle_play_locks)

\* handle_playback by command
handle_playback_locks(cmd, branch) ==
    IF cmd = "play" THEN handle_play_locks
    ELSE IF cmd = "stop" THEN audio_stop_locks \o update_state_locks
    ELSE IF cmd = "next" THEN advance_queue_locks(branch)
    ELSE IF cmd = "previous"
         \* position above 3000 ms: seek and update_state; else retreat_queue
         THEN IF branch = "one" THEN update_state_locks
              ELSE retreat_queue_locks(branch)
    ELSE IF cmd = "set_shuffle" THEN update_state_locks \o update_queue_locks
    ELSE update_state_locks

LockCommands == {"play", "pause", "stop", "next", "previous", "set_shuffle"}

\* one heartbeat iteration by branch
heartbeat_locks(hb, branch) ==
    IF hb = "hb_error" THEN audio_stop_locks \o update_state_locks
    ELSE IF hb = "hb_end" THEN Hold("state") \o advance_queue_locks(branch)
    ELSE IF hb = "hb_sync" THEN update_state_locks
    ELSE IF hb = "hb_probe" THEN update_state_locks \o Hold("state") \o Hold("queue")
    ELSE <<>>

HeartbeatBranches == {"hb_error", "hb_end", "hb_sync", "hb_probe"}

\* set_queue, playback_state, queue_state
client_locks(call) == IF call = "playback_state" THEN Hold("state") ELSE Hold("queue")
ClientCalls == {"set_queue", "playback_state", "queue_state"}

LkBecomes(t, r) ==
    /\ lk' = r
    /\ UNCHANGED <<core, hist, lib, clk, ffi, th, sq, rg, sh>>

Starts(t, op, script) ==
    /\ lk.th[t].todo = <<>>
    /\ LkBecomes(t, [lk EXCEPT !.th[t] = [op |-> op, todo |-> script, held |-> <<>>]])

ClientCall == \E call \in ClientCalls : Starts("client", call, client_locks(call))

DispatchCommand ==
    \E cmd \in LockCommands, branch \in AdvanceBranches :
        Starts("dispatcher", cmd, handle_playback_locks(cmd, branch))

HeartbeatIteration ==
    \E hb \in HeartbeatBranches, branch \in AdvanceBranches :
        Starts("heartbeat", hb, heartbeat_locks(hb, branch))

\* decode_to_ring's push and seek clear, the data callback's pull
RingUse == \E t \in {"decoder", "output"} : Starts(t, "ring", Hold("ring"))

Wants(t) ==
    IF lk.th[t].todo # <<>> /\ Head(lk.th[t].todo).do = "acq"
    THEN Head(lk.th[t].todo).lock ELSE "none"

LockAcquire(t) ==
    /\ Wants(t) # "none"
    /\ lk.owner[Wants(t)] = Free
    /\ LkBecomes(t, [lk EXCEPT !.owner[Wants(t)] = t,
                              !.th[t].held = Append(@, Wants(t)),
                              !.th[t].todo = Tail(@)])

LockRelease(t) ==
    /\ lk.th[t].todo # <<>>
    /\ Head(lk.th[t].todo).do = "rel"
    /\ LET l == Head(lk.th[t].todo).lock
       IN LkBecomes(t, [lk EXCEPT !.owner[l] = Free,
                                 !.th[t].held = SelectSeq(@, LAMBDA h : h # l),
                                 !.th[t].todo = Tail(@)])

LockNext ==
    \/ ClientCall \/ DispatchCommand \/ HeartbeatIteration \/ RingUse
    \/ \E t \in LockThreads : LockAcquire(t) \/ LockRelease(t)

LockSpec == Init /\ [][LockNext]_vars

\* ===================================================== set_queue in two steps
\* set_queue: the queue is stored under the lock, the guard is dropped at the
\* end of that statement, and the put of the same value follows unlocked.
SetQueueStore ==
    /\ ~sq.pending
    /\ \E items \in QueueChoices, start_index \in 0..MaxStart :
          LET new_queue == set_queue(World, items, start_index).queue
          IN /\ queue' = new_queue
             /\ sq' = [pending |-> TRUE, new_queue |-> new_queue]
    /\ last' = Label("set_queue")
    /\ UNCHANGED <<state, audio, history, store, trail, ctl, stats,
                   hist, lib, clk, ffi, th, lk, rg, sh>>

SetQueuePut ==
    /\ sq.pending
    /\ store' = [store EXCEPT !.queue_current = sq.new_queue]
    /\ sq' = NoPut
    /\ last' = Label("set_queue")
    /\ UNCHANGED <<state, queue, audio, history, trail, ctl, stats,
                   hist, lib, clk, ffi, th, lk, rg, sh>>

\* A client sets the queue while the dispatcher moves in it and shuffles it.
MirrorNext ==
    \/ SetQueueStore \/ SetQueuePut
    \/ CmdNext \/ CmdPrevious \/ CmdSetShuffle

MirrorSpec == Init /\ [][MirrorNext]_vars

\* ================================================================== the clock
default_clock ==
    [partitions |-> <<[name |-> "sub", modulus |-> 4], [name |-> "beat", modulus |-> 4],
                      [name |-> "bar", modulus |-> 4]>>,
     pulses |-> <<[name |-> "beat", every |-> 4], [name |-> "bar", every |-> 16],
                  [name |-> "phrase", every |-> 64]>>]

\* p["name"].as_str()? and p[key].as_u64()?, then the zero test
EntryOk(p, key) ==
    /\ "name" \in DOMAIN p
    /\ key \in DOMAIN p
    /\ p[key] \in Nat
    /\ p[key] # 0

\* faulty: the periods of the pulses are not tested
try_build_clock_unchecked_pulses(config) ==
    IF "partitions" \notin DOMAIN config \/ "pulses" \notin DOMAIN config THEN <<>>
    ELSE IF \E i \in 1..Len(config.partitions) : ~EntryOk(config.partitions[i], "modulus")
         THEN <<>>
         ELSE <<[partitions |-> config.partitions, pulses |-> config.pulses]>>

\* Some(clock) is <<clock>>, None is <<>>
try_build_clock_from_config(config) ==
    IF "partitions" \notin DOMAIN config \/ "pulses" \notin DOMAIN config THEN <<>>
    ELSE IF \E i \in 1..Len(config.partitions) : ~EntryOk(config.partitions[i], "modulus")
         THEN <<>>
    ELSE IF \E i \in 1..Len(config.pulses) : ~EntryOk(config.pulses[i], "every")
         THEN <<>>
         ELSE <<[partitions |-> config.partitions, pulses |-> config.pulses]>>

build_clock(config) ==
    IF config = NoConfig THEN default_clock
    ELSE IF try_build_clock_from_config(config) # <<>>
         THEN try_build_clock_from_config(config)[1]
         ELSE default_clock

\* The pulses a tick fires: those whose period divides the tick count.
PulsesFired(clock, tick) ==
    {clock.pulses[i].name : i \in {j \in 1..Len(clock.pulses) :
                                      tick % clock.pulses[j].every = 0}}

\* The stored configs clients write: valid ones, and invalid ones of each kind.
ClockConfigs ==
    {[partitions |-> <<[name |-> "step", modulus |-> 8], [name |-> "group", modulus |-> 4]>>,
      pulses |-> <<[name |-> "measure", every |-> 2]>>],
     [partitions |-> <<[name |-> "sub", modulus |-> 1]>>, pulses |-> <<>>],
     [partitions |-> <<[name |-> "bad", modulus |-> 0]>>, pulses |-> <<>>],
     [partitions |-> <<[name |-> "sub", modulus |-> 4]>>,
      pulses |-> <<[name |-> "beat", every |-> 2], [name |-> "bar", every |-> 0]>>],
     [partitions |-> <<[name |-> "sub"]>>, pulses |-> <<>>],
     [partitions |-> <<[modulus |-> 4]>>, pulses |-> <<>>],
     [partitions |-> <<[name |-> "sub", modulus |-> -4]>>, pulses |-> <<>>],
     [partitions |-> <<[name |-> "sub", modulus |-> 4]>>, pulses |-> <<[name |-> "beat"]>>],
     [partitions |-> <<[name |-> "sub", modulus |-> 4]>>],
     [pulses |-> <<[name |-> "beat", every |-> 4]>>]}

ClkBecomes(c) ==
    /\ clk' = c
    /\ UNCHANGED <<core, hist, lib, ffi, th, lk, sq, rg, sh>>

\* configure_clock: takes effect when the heartbeat is started
ConfigureClock ==
    /\ clk.built = NoClock
    /\ \E config \in ClockConfigs : ClkBecomes([clk EXCEPT !.config = config])

\* the first statement of the heartbeat thread
BuildClock ==
    /\ clk.built = NoClock
    /\ ClkBecomes([clk EXCEPT !.built = build_clock(clk.config)])

\* One heartbeat iteration: clock.tick(), the pipeline branch, then the puts
\* of the tick and of its pulses, which the error branch's `continue` skips.
ClockHeartbeat ==
    /\ clk.built # NoClock
    /\ clk.tick < MaxTicks
    /\ \E probeOk \in ProbeOutcomes :
          LET w == Heartbeat(World, probeOk)
          IN Writes([w EXCEPT !.history = SubSeq(@, 1, IF Len(@) > MaxHistory
                                                        THEN MaxHistory ELSE Len(@))],
                    HeartbeatBranch(World))
    /\ LET t == clk.tick + 1
       IN clk' = IF audio.error
                 THEN [clk EXCEPT !.tick = t]
                 ELSE [clk EXCEPT !.tick = t, !.tick_scroll = t,
                                  !.pulse_scrolls =
                                     [n \in PulseNames |->
                                        IF n \in PulsesFired(clk.built, t) THEN t ELSE @[n]]]
    /\ UNCHANGED <<trail, ctl, stats, hist, lib, ffi, th, lk, sq, rg, sh>>

\* The pipeline under the heartbeat: one track played by command, with its
\* decoder and output threads.
ClockNext ==
    \/ ConfigureClock \/ BuildClock \/ ClockHeartbeat
    \/ CmdPlay
    \/ DecoderOpen \/ DecoderPacket \/ DecoderEof \/ DecoderFail
    \/ OutputStart \/ OutputCallback \/ OutputDrained

ClockSpec == Init /\ [][ClockNext]_vars

\* ================================================================== the C ABI
NullPtr == "nullptr"
BadUtf8 == "bad_utf8"
Handles == {NullPtr, "engine"}
BadJson == <<"{">>

engine_ref(handle) ==
    IF handle = NullPtr THEN [ok |-> FALSE, err |-> "null engine handle"]
    ELSE [ok |-> TRUE, err |-> NoMessage]

read_cstr(ptr) ==
    IF ptr = NullPtr THEN [ok |-> FALSE, err |-> "null string pointer"]
    ELSE IF ptr = BadUtf8 THEN [ok |-> FALSE, err |-> "invalid utf-8"]
    ELSE [ok |-> TRUE, err |-> NoMessage]

clear_error(f) == [f EXCEPT !.last_error = NoMessage]
set_error(f, msg) == [f EXCEPT !.last_error = msg]
err_null(f, msg) == [set_error(f, msg) EXCEPT !.ret = "null"]
err_zero(f, msg) == [set_error(f, msg) EXCEPT !.ret = "0"]

\* Each call gives the thread's new LAST_ERROR and return value, and the library.
amsal_library_add(f, l, handle, id, json) ==
    LET g == [clear_error(f) EXCEPT !.call = "amsal_library_add"]
    IN IF ~engine_ref(handle).ok THEN [ffi |-> err_null(g, engine_ref(handle).err), lib |-> l]
       ELSE IF ~read_cstr(id).ok THEN [ffi |-> err_null(g, read_cstr(id).err), lib |-> l]
       ELSE IF ~read_cstr(json.ptr).ok
            THEN [ffi |-> err_null(g, read_cstr(json.ptr).err), lib |-> l]
       ELSE IF json.text = BadJson THEN [ffi |-> err_null(g, "EOF while parsing"), lib |-> l]
       ELSE [ffi |-> [g EXCEPT !.ret = "string"],
             lib |-> add_to_library(l, id, ItemData(id, json.text))]

amsal_delete(f, l, handle, id) ==
    LET g == [clear_error(f) EXCEPT !.call = "amsal_delete"]
    IN IF ~engine_ref(handle).ok THEN [ffi |-> err_zero(g, engine_ref(handle).err), lib |-> l]
       ELSE IF ~read_cstr(id).ok THEN [ffi |-> err_zero(g, read_cstr(id).err), lib |-> l]
       ELSE IF delete_from_library(l, id).result = "ok"
            THEN [ffi |-> [g EXCEPT !.ret = "1"], lib |-> delete_from_library(l, id)]
            ELSE [ffi |-> err_zero(g, "not found"), lib |-> delete_from_library(l, id)]

\* path is the library path of an id; Ok(None) returns null with no message
amsal_read(f, l, handle, path) ==
    LET g == [clear_error(f) EXCEPT !.call = "amsal_read"]
    IN IF ~engine_ref(handle).ok THEN err_null(g, engine_ref(handle).err)
       ELSE IF ~read_cstr(path).ok THEN err_null(g, read_cstr(path).err)
       ELSE IF l.items[path].exists THEN [g EXCEPT !.ret = "string"]
       ELSE [g EXCEPT !.ret = "null"]

\* take(): the message, or null when there is none
amsal_last_error(f) ==
    [f EXCEPT !.call = "amsal_last_error", !.last_error = NoMessage,
              !.ret = IF f.last_error = NoMessage THEN "null" ELSE f.last_error]

FfiBecomes(r) ==
    /\ ffi' = r.ffi
    /\ lib' = r.lib
    /\ UNCHANGED <<core, hist, clk, th, lk, sq, rg, sh>>

CStrings == LibIds \cup {NullPtr, BadUtf8}
JsonStrings ==
    {[ptr |-> "text", text |-> t] : t \in Titles \cup {BadJson}}
        \cup {[ptr |-> q, text |-> <<>>] : q \in {NullPtr, BadUtf8}}

FfiLibraryAdd ==
    \E handle \in Handles, id \in CStrings, json \in JsonStrings :
        FfiBecomes(amsal_library_add(ffi, lib, handle, id, json))

FfiDelete ==
    \E handle \in Handles, id \in CStrings : FfiBecomes(amsal_delete(ffi, lib, handle, id))

FfiRead ==
    \E handle \in Handles, path \in CStrings :
        FfiBecomes([ffi |-> amsal_read(ffi, lib, handle, path), lib |-> lib])

FfiLastError == FfiBecomes([ffi |-> amsal_last_error(ffi), lib |-> lib])

FfiNext == FfiLibraryAdd \/ FfiDelete \/ FfiRead \/ FfiLastError

FfiSpec == Init /\ [][FfiNext]_vars

\* ===================================================== the audio threads
\* AudioEffect::play and ::stop statement by statement, with the decoder and
\* output threads each call spawns and joins. A pair g is the decoder and the
\* output thread pushed together by the g-th spawn.
ThBecomes(t) ==
    /\ th' = t
    /\ UNCHANGED <<core, hist, lib, clk, ffi, lk, sq, rg, sh>>

Live(pc) == pc \notin {"none", "done"}
Decoders(t) == {g \in 1..MaxPlays : Live(t.pair[g].dec)}
Outputs(t) == {g \in 1..MaxPlays : Live(t.pair[g].out)}

\* a thread enters play() / stop()
CallPlay(c) ==
    /\ th.caller[c].pc = "idle"
    /\ th.plays < MaxPlays
    /\ ThBecomes([th EXCEPT !.caller[c] = [op |-> "play", pc |-> "flags", handles |-> {}],
                            !.plays = @ + 1])

CallStop(c) ==
    /\ th.caller[c].pc = "idle"
    /\ ThBecomes([th EXCEPT !.caller[c] = [op |-> "stop", pc |-> "flags", handles |-> {}]])

\* stop(): the three stores
StopFlags(c) ==
    /\ th.caller[c].pc = "flags"
    /\ ThBecomes([th EXCEPT !.stop_signal = TRUE, !.playing = FALSE, !.paused = FALSE,
                            !.caller[c].pc = "clear"])

\* stop(): samples.lock().clear()
StopClear(c) ==
    /\ th.caller[c].pc = "clear"
    /\ ThBecomes([th EXCEPT !.ring = 0, !.caller[c].pc = "drain"])

\* stop(): threads.lock().drain(..).collect()
StopDrain(c) ==
    /\ th.caller[c].pc = "drain"
    /\ ThBecomes([th EXCEPT !.caller[c].handles = th.threads, !.threads = {},
                            !.caller[c].pc = "join"])

\* stop(): every drained handle has been joined
StopJoin(c) ==
    /\ th.caller[c].pc = "join"
    /\ \A g \in th.caller[c].handles : ~Live(th.pair[g].dec) /\ ~Live(th.pair[g].out)
    /\ ThBecomes([th EXCEPT !.caller[c] =
                     IF @.op = "play" THEN [@ EXCEPT !.pc = "reset", !.handles = {}]
                     ELSE Idle])

\* play(): the stores after stop(), and the clear of the ring
PlayReset(c) ==
    /\ th.caller[c].pc = "reset"
    /\ ThBecomes([th EXCEPT !.stop_signal = FALSE, !.playing = TRUE, !.paused = FALSE,
                            !.finished = FALSE, !.error = FALSE, !.seek = FALSE,
                            !.ring = 0, !.caller[c].pc = "spawn"])

\* play(): both spawns, pushed under one hold of the threads mutex
PlaySpawn(c) ==
    /\ th.caller[c].pc = "spawn"
    /\ LET g == CHOOSE n \in 1..MaxPlays :
                   /\ th.pair[n] = NoPair
                   /\ \A m \in 1..MaxPlays : th.pair[m] = NoPair => n <= m
       IN ThBecomes([th EXCEPT !.pair[g] = [dec |-> "top", out |-> "start",
                                            left |-> TrackPackets],
                               !.threads = @ \cup {g},
                               !.caller[c] = Idle])

\* the decoder's closure ends: finished is stored after decode_to_ring
DecoderExit(t, g) == [t EXCEPT !.pair[g].dec = "done", !.finished = TRUE]

\* decode_to_ring: the head of the loop, stop test and seek request
DecTop(g) ==
    /\ th.pair[g].dec = "top"
    /\ ThBecomes(IF th.stop_signal THEN DecoderExit(th, g)
                 ELSE [th EXCEPT !.seek = FALSE,
                                 !.ring = IF th.seek THEN 0 ELSE @,
                                 !.pair[g].dec = "pause_wait"])

\* decode_to_ring: while paused, sleeping unless stop_signal is set
DecPauseWait(g) ==
    /\ th.pair[g].dec = "pause_wait"
    /\ ~th.paused \/ th.stop_signal
    /\ ThBecomes(IF th.paused THEN DecoderExit(th, g)
                 ELSE [th EXCEPT !.pair[g].dec = "packet"])

\* decode_to_ring: next_packet, a packet or the end of the stream
DecPacket(g) ==
    /\ th.pair[g].dec = "packet"
    /\ ThBecomes(IF th.pair[g].left = 0 THEN DecoderExit(th, g)
                 ELSE [th EXCEPT !.pair[g].left = @ - 1, !.pair[g].dec = "push"])

\* decode_to_ring returning Err
DecError(g) ==
    /\ th.pair[g].dec = "packet"
    /\ ThBecomes([DecoderExit(th, g) EXCEPT !.error = TRUE])

\* decode_to_ring: push when the ring has room, else sleep
DecPush(g) ==
    /\ th.pair[g].dec = "push"
    /\ ThBecomes(IF th.ring < RingCap
                 THEN [th EXCEPT !.ring = @ + 1, !.pair[g].dec = "top"]
                 ELSE [th EXCEPT !.pair[g].dec = "backoff"])

\* decode_to_ring: after the back-off sleep, the stop test
DecBackoff(g) ==
    /\ th.pair[g].dec = "backoff"
    /\ ThBecomes(IF th.stop_signal THEN DecoderExit(th, g)
                 ELSE [th EXCEPT !.pair[g].dec = "push"])

\* output_from_ring: device, config and stream
OutStart(g) ==
    /\ th.pair[g].out = "start"
    /\ ThBecomes([th EXCEPT !.pair[g].out = "loop"])

OutError(g) ==
    /\ th.pair[g].out = "start"
    /\ ThBecomes([th EXCEPT !.pair[g].out = "done", !.error = TRUE])

\* output_from_ring: the keep-alive loop leaves on one of its three tests
OutLoop(g) ==
    /\ th.pair[g].out = "loop"
    /\ th.ring = 0
    /\ th.stop_signal \/ th.finished \/ ~th.playing
    /\ ThBecomes([th EXCEPT !.pair[g].out = "done", !.playing = FALSE])

\* the stream's data callback: silence while paused, else a pull
OutCallback(g) ==
    /\ th.pair[g].out = "loop"
    /\ ~th.paused
    /\ th.ring > 0
    /\ ThBecomes([th EXCEPT !.ring = @ - 1])

\* pause / resume / seek: one store each
ThPause == ~th.paused /\ ThBecomes([th EXCEPT !.paused = TRUE])
ThResume == th.paused /\ ThBecomes([th EXCEPT !.paused = FALSE])
ThSeek == ~th.seek /\ ThBecomes([th EXCEPT !.seek = TRUE])

CallerStep(c) ==
    \/ StopFlags(c) \/ StopClear(c) \/ StopDrain(c) \/ StopJoin(c)
    \/ PlayReset(c) \/ PlaySpawn(c)

DecoderStep(g) ==
    \/ DecTop(g) \/ DecPauseWait(g) \/ DecPacket(g) \/ DecPush(g) \/ DecBackoff(g)

OutputStep(g) == OutStart(g) \/ OutLoop(g)

ThreadsNext(callers) ==
    \/ \E c \in callers : CallPlay(c) \/ CallStop(c) \/ CallerStep(c)
    \/ \E g \in 1..MaxPlays :
          DecoderStep(g) \/ DecError(g) \/ OutputStep(g) \/ OutError(g) \/ OutCallback(g)

\* the dispatcher and the heartbeat both call play() and stop()
PlayNext == ThreadsNext(Callers)
PlaySpec == Init /\ [][PlayNext]_vars

\* one thread calls play() and stop(); pause, resume and seek come from others
StopNext == ThreadsNext({"heartbeat"}) \/ ThPause \/ ThResume \/ ThSeek
StopSpec == Init /\ [][StopNext]_vars
FairStopSpec ==
    /\ StopSpec
    /\ WF_vars(CallerStep("heartbeat"))
    /\ \A g \in 1..MaxPlays :
          /\ WF_vars(DecoderStep(g))
          /\ WF_vars(OutputStep(g))
          /\ SF_vars(OutCallback(g))

\* ================================================================ properties
AllPlayable(items) == \A k \in 1..Len(items) : Playable(items[k])
AdvanceOps == {"next", "hb_end"}
IsPermutation(order, n) ==
    /\ Len(order) = n
    /\ {order[k] : k \in 1..Len(order)} = 0..(n - 1)

\* C9: whenever the queue has items, its index lies in [0, len(items)); this
\* is to hold after set_queue(items, start_index) and after every command.
C9_IndexInRange ==
    queue.items # <<>> => (queue.index >= 0 /\ queue.index < Len(queue.items))

\* C10: whenever shuffle is on, shuffle_order is a permutation of
\* 0..len(items)-1 and the index addresses one of its positions; this is to
\* hold also for an empty queue and for an index beyond the items.
C10_ShuffleOrderPermutation ==
    queue.shuffle =>
        /\ queue.has_order
        /\ IsPermutation(queue.shuffle_order, Len(queue.items))
        /\ (queue.items # <<>> => queue.index < Len(queue.shuffle_order))

\* C3: with repeat off or all, shuffle off, every item a library entry and
\* the index i not the last, an advance moves the index to i + 1, leaves the
\* rest of the queue alone and replaces the playback state with one that
\* plays the item at i + 1.
C3_NextMovesToSuccessor ==
    [][(/\ last' = "next"
        /\ state.repeat \in {"off", "all"}
        /\ ~queue.shuffle
        /\ AllPlayable(queue.items)
        /\ queue.index + 1 < Len(queue.items))
       => (/\ queue' = [queue EXCEPT !.index = queue.index + 1]
           /\ store'.queue_current = queue'
           /\ state'.current_id = queue.items[queue.index + 2]
           /\ state'.playing = TRUE /\ state'.position_ms = 0
           /\ state'.shuffle = state.shuffle /\ state'.repeat = state.repeat
           /\ store'.playback_state = state'
           /\ audio'.path = queue.items[queue.index + 2]
           /\ audio'.playing /\ audio'.dec = "open")]_vars

C3_Witness ==
    /\ last = "next"
    /\ state.repeat \in {"off", "all"}
    /\ ~queue.shuffle
    /\ AllPlayable(queue.items)
    /\ queue.index >= 1 /\ queue.index < Len(queue.items)
    /\ state.playing
    /\ state.current_id = queue.items[queue.index + 1]
    /\ audio.path = state.current_id /\ audio.dec = "open"

\* C4: an advance (next, or the heartbeat's end of track) at the last index
\* of a non-empty queue with repeat off stops the pipeline and resets the
\* playback state to its defaults; the queue document is left as it was.
C4_AdvanceAtEndStops ==
    [][(/\ last' \in AdvanceOps
        /\ queue.items # <<>>
        /\ queue.index = Len(queue.items) - 1
        /\ state.repeat = "off")
       => (/\ queue' = queue
           /\ store'.queue_current = store.queue_current
           /\ state' = default_playback_state
           /\ store'.playback_state = default_playback_state
           /\ ~audio'.playing /\ ~audio'.paused /\ audio'.stop_signal
           /\ audio'.dec = "none" /\ audio'.out = "none")]_vars

C4_Witness ==
    /\ last \in AdvanceOps
    /\ Len(queue.items) >= 2
    /\ queue.index = Len(queue.items) - 1
    /\ state = default_playback_state
    /\ audio.stop_signal /\ audio.path = queue.items[Len(queue.items)]
    /\ audio.dec = "none" /\ audio.out = "none"

\* What dispatching play{id} from world w leaves behind, for the id that the
\* queue document q resolves to: the track started, or nothing touched.
Played(id) ==
    /\ state'.current_id = id /\ state'.playing
    /\ state'.position_ms = 0 /\ state'.error = Null
    /\ store'.playback_state = state'
    /\ audio'.path = id /\ audio'.playing /\ ~audio'.error
    /\ audio'.dec = "open" /\ audio'.out = "start"

NothingPlayed == state' = state /\ audio' = audio /\ store'.playback_state = store.playback_state

\* C5 (as stated): an advance at the last index of a non-empty queue with
\* repeat all wraps the index to 0 and the track resolved there is played.
C5_WrapPlaysAlways ==
    [][(/\ last' \in AdvanceOps
        /\ queue.items # <<>>
        /\ queue.index = Len(queue.items) - 1
        /\ state.repeat = "all")
       => (/\ queue' = [queue EXCEPT !.index = 0]
           /\ queue_current_id(queue') # Null
           /\ Played(queue_current_id(queue')))]_vars

\* C5 (amended): the index wraps to 0 in every case; the track resolved
\* there is played when it resolves to a library entry that has a file, and
\* otherwise playback state and pipeline stay as they were.
C5_WrapPlaysLibraryEntry ==
    [][(/\ last' \in AdvanceOps
        /\ queue.items # <<>>
        /\ queue.index = Len(queue.items) - 1
        /\ state.repeat = "all")
       => (/\ queue' = [queue EXCEPT !.index = 0]
           /\ store'.queue_current = queue'
           /\ LET id == queue_current_id(queue')
              IN IF id # Null /\ Playable(id)
                 THEN Played(id) ELSE NothingPlayed)]_vars

C5_Witness ==
    /\ last \in AdvanceOps
    /\ state.repeat = "all"
    /\ Len(queue.items) >= 2
    /\ queue.index = 0
    /\ state.playing /\ state.current_id = queue_current_id(queue)
    /\ audio.path = state.current_id /\ audio.dec = "open"

\* C6 (as stated): an advance with repeat one leaves the whole queue
\* document unchanged and replays the current media id, so that current_id
\* afterwards equals the queue's current id.
C6_RepeatOneReplaysAlways ==
    [][(/\ last' \in AdvanceOps
        /\ queue.items # <<>>
        /\ state.repeat = "one")
       => (/\ queue' = queue
           /\ state'.current_id = queue_current_id(queue'))]_vars

\* C6 (amended): the queue document is unchanged in every case; the queue's
\* current id is replayed, and current_id equals it afterwards, when it
\* resolves to a library entry that has a file; otherwise nothing changes.
C6_RepeatOneReplaysLibraryEntry ==
    [][(/\ last' \in AdvanceOps
        /\ queue.items # <<>>
        /\ state.repeat = "one")
       => (/\ queue' = queue
           /\ store'.queue_current = store.queue_current
           /\ LET id == queue_current_id(queue)
              IN IF id # Null /\ Playable(id)
                 THEN Played(id) ELSE NothingPlayed)]_vars

C6_Witness ==
    /\ last \in AdvanceOps
    /\ state.repeat = "one"
    /\ Len(queue.items) >= 2
    /\ queue.index = 1
    /\ state.playing /\ state.current_id = queue_current_id(queue)
    /\ state.current_id # Null
    /\ audio.path = state.current_id /\ audio.dec = "open"

\* C8: retreat on a non-empty queue moves the index to i - 1 when i > 0 and
\* to the last index when i = 0, whatever the repeat mode, mirrors the queue
\* and dispatches play for the id resolved there; on an empty queue it
\* changes nothing.
C8_RetreatMovesBack ==
    [][(last' = "previous")
       => IF queue.items = <<>>
          THEN /\ queue' = queue /\ NothingPlayed
               /\ store' = store /\ history' = history
          ELSE /\ queue' = [queue EXCEPT !.index = IF queue.index > 0
                                                   THEN queue.index - 1
                                                   ELSE Len(queue.items) - 1]
               /\ store'.queue_current = queue'
               /\ LET id == queue_current_id(queue')
                  IN IF id # Null /\ Playable(id)
                     THEN Played(id) ELSE NothingPlayed]_vars

C8_Witness ==
    /\ last = "previous"
    /\ state.repeat = "off"
    /\ ~queue.shuffle
    /\ Len(queue.items) >= 2
    /\ queue.index = Len(queue.items) - 1
    /\ state.playing /\ state.current_id = queue.items[Len(queue.items)]
    /\ audio.path = state.current_id /\ audio.dec = "open"

\* C1: the heartbeat advances the queue only when a track has reached its
\* natural end; a heartbeat iteration that follows a user stop advances
\* nothing: the queue is untouched, no track is started, and playback stays
\* at its defaults (not playing, no current id).
C1_NoAdvanceAfterStop ==
    [][(last = "stop" /\ HeartbeatTick)
       => (/\ queue' = queue
           /\ state'.playing = FALSE /\ state'.current_id = Null
           /\ ~audio'.playing
           /\ audio'.dec = "none" /\ audio'.out = "none")]_vars

C7_PreviousRestartsTrack ==
    [][/\ (last' = "previous_restart")
            => (/\ audio.position_ms > PreviousRestartMs
                /\ queue' = queue
                /\ state'.current_id = state.current_id
                /\ state'.position_ms = 0)
       /\ (last = "previous_restart" /\ (DecoderSeek \/ DecoderPacket \/ DecoderEof))
            => audio'.position_ms = 0
       /\ (last' = "previous")
            => (/\ audio.position_ms <= PreviousRestartMs
                /\ queue.items # <<>>
                     => queue'.index = IF queue.index > 0 THEN queue.index - 1
                                       ELSE Len(queue.items) - 1)]_vars

ShuffleOff == [action |-> "setshuffle", enabled |-> FALSE]

\* C11: with shuffle off at index k, set_shuffle(true) followed at once by
\* set_shuffle(false) ends with index = k, shuffle = false and no
\* shuffle_order; whenever shuffle is disabled, after next/previous or not,
\* the index becomes shuffle_order[index], the item index of the current
\* track, so that the queue's current id is the same before and after.
C11_ShuffleRoundTrip ==
    [][/\ (trail'.tag = "restored")
            => (/\ queue'.index = trail'.k
                /\ ~queue'.shuffle /\ ~queue'.has_order
                /\ queue'.shuffle_order = <<>>
                /\ store'.queue_current = queue')
       /\ (queue.shuffle /\ CommandStep(ShuffleOff))
            => (/\ queue'.index = queue.shuffle_order[queue.index + 1]
                /\ queue'.items = queue.items
                /\ ~queue'.shuffle /\ ~queue'.has_order
                /\ queue_current_id(queue') = queue_current_id(queue)
                /\ state'.shuffle = FALSE)]_vars

C11_Witness ==
    /\ trail.tag = "restored" /\ trail.k = 1
    /\ Len(queue.items) = 2 /\ queue.index = 1
    /\ ~queue.shuffle /\ ~queue.has_order

\* C12: in every reachable playback state, playing = true never comes with a
\* null current_id: no sequence of commands (resume with nothing loaded among
\* them) makes the state say "playing" while it names no track.
C12_NullIdNotPlaying == state.current_id = Null => ~state.playing

\* C13: in every reachable playback state where position_ms and duration_ms
\* are both non-zero, position_ms <= duration_ms.
C13_PositionWithinDuration ==
    (state.position_ms # 0 /\ state.duration_ms # 0)
        => state.position_ms <= state.duration_ms

\* C14: after any set_volume the pipeline's volume is an integer of 0..100 and
\* the playback state's volume lies within [0.0, 1.0] (0..1000 thousandths).
C14_VolumeClamped ==
    /\ audio.volume \in 0..100
    /\ state.volume >= 0 /\ state.volume <= 1000
    /\ store.playback_state.volume >= 0 /\ store.playback_state.volume <= 1000

PlayOf(id) == [action |-> "play", id |-> id]

\* C15: play{id} for a library item that has a path starts the pipeline on
\* that path and replaces the playback state, in one write that the store
\* mirrors, by a document with current_id = id, the item's title, artist,
\* album and duration, playing = true and position_ms = 0, in which volume,
\* shuffle and repeat have the values they had before; the queue document is
\* not modified.
C15_PlayReplacesState ==
    [][\A id \in UsedIds :
        (Playable(id) /\ CommandStep(PlayOf(id))) =>
            /\ state' = [current_id |-> id, title |-> Field(TitleSeq, id),
                         artist |-> Field(ArtistSeq, id), album |-> Field(AlbumSeq, id),
                         playing |-> TRUE, position_ms |-> 0, duration_ms |-> TrackMs,
                         volume |-> state.volume, shuffle |-> state.shuffle,
                         repeat |-> state.repeat, error |-> Null]
            /\ store'.playback_state = state'
            /\ audio'.path = id /\ audio'.playing /\ ~audio'.paused
            /\ ~audio'.stop_signal /\ ~audio'.finished /\ ~audio'.error
            /\ audio'.position_ms = 0 /\ audio'.dec = "open" /\ audio'.out = "start"
            /\ audio'.volume = audio.volume
            /\ queue' = queue /\ store'.queue_current = store.queue_current
            /\ history' = history]_vars

\* play b arrived while a was loaded, with settings that are not the defaults
C15_Witness ==
    /\ state.current_id = "b" /\ state.title = "title_b" /\ state.playing
    /\ state.position_ms = 0 /\ state.duration_ms = TrackMs
    /\ state.volume = 1500 /\ state.shuffle /\ state.repeat = "all"
    /\ audio.path = "b" /\ audio.dec = "open" /\ audio.playing
    /\ queue.items = <<"a", "b">> /\ queue.index = 0 /\ queue.shuffle_order = <<0, 1>>
    /\ last = "other"

\* C16: play{id} for an id with no library entry, or with an entry that has
\* no path, is a silent no-op: the playback state, the queue, the pipeline and
\* the store's mirrors are exactly as they were before the command.
C16_PlayMissIsNoOp ==
    [][\A id \in {MissingId, PathlessId} :
        CommandStep(PlayOf(id)) =>
            /\ last' = "play_miss"
            /\ UNCHANGED <<state, queue, audio, store, history>>]_vars

\* a miss arrived while a was playing from a shuffled queue
C16_Witness ==
    /\ last = "play_miss"
    /\ state.playing /\ state.current_id = "a" /\ state.position_ms = TrackMs + PacketMs
    /\ audio.playing /\ audio.path = "a" /\ audio.dec = "open"
    /\ queue.items = <<"a", MissingId>> /\ queue.shuffle

\* When both watchers had subscribed before shutdown() was called, it returns.
SubscribedShutdownReturns ==
    (ctl.sd = "flagged" /\ ctl.handles /\ ctl.w_pc # "spawned" /\ ctl.i_pc # "spawned")
        ~> (ctl.sd = "idle")

\* C17: a record on the command path that is not a valid tagged command (an
\* unknown action, a missing payload, the shutdown sentinel) is dropped: the
\* playback state, the queue, the pipeline and the store are unchanged, and
\* the dispatcher is back at its channel with the later records still in it;
\* it takes the next record and handles it when that one is a command.
C17_BadRecordDropped ==
    [][/\ \A v \in BadRecords : from_value(v) = <<>>
       /\ (ctl.w_rec \in BadRecords /\ WatcherHandle) =>
            /\ UNCHANGED <<state, queue, audio, store, history>>
            /\ last' = "dropped"
            /\ ctl' = [ctl EXCEPT !.w_pc = "wait", !.w_rec = NoRecord]
       /\ (last = "dropped" /\ ~ctl.flag /\ WatcherTake) =>
            /\ ctl'.w_pc = "handle"
            /\ ctl'.w_rec = Head(ctl.w_box)
       /\ (last = "dropped" /\ ctl.w_rec = PlayOf(IdSeq[1]) /\ WatcherHandle) =>
            /\ state'.current_id = IdSeq[1] /\ state'.playing
            /\ audio'.path = IdSeq[1] /\ audio'.playing]_vars

\* a record was dropped while a was playing, and the dispatcher has taken the
\* play that came after it
C17_Witness ==
    /\ last = "dropped"
    /\ ctl.w_pc = "handle" /\ ctl.w_rec = PlayOf(IdSeq[1])
    /\ ctl.w_box = <<[action |-> "play"]>>
    /\ state.playing /\ state.current_id = "a" /\ audio.playing /\ audio.path = "a"

\* C18: a shutdown() called after start() returns: the three loops see the
\* flag and are joined.
C18_ShutdownReturns == (ctl.sd = "flagged" /\ ctl.handles) ~> (ctl.sd = "idle")

\* C19: once a shutdown() has returned the pipeline is stopped: it is not
\* playing and no decoder or output thread is alive.
C19_StoppedAfterShutdown ==
    (ctl.returns > 0 /\ ctl.sd = "idle")
        => (~audio.playing /\ audio.dec = "none" /\ audio.out = "none")

\* C20: when no record_play call is in progress, play_count is the number of
\* calls that completed and total_played_ms is that number times the duration
\* each recorded, also when the client and the heartbeat recorded at once.
C20_StatsCountEveryPlay ==
    (stats.client.pc = "idle" /\ stats.heartbeat.pc = "idle") =>
        LET n == stats.client.done + stats.heartbeat.done
        IN /\ stats.play_count = n
           /\ stats.total_played_ms = n * PlayedMs

\* C21: the play history is append-only: after k play events there are k
\* history entries, also when two events fall in the same millisecond.
C21_HistoryHasEveryEvent == Cardinality(history_paths(hist)) = hist.events

\* The scrolls a listing, a search or a filter can return for the id.
Listed(l, id) ==
    \/ id \in list_library(l)
    \/ \E q \in Queries \cup Titles :
          \E d \in search_library(l, q) \cup filter_library(l, q) : d.id = id

C23_EveryTickStored ==
    /\ clk.tick_scroll = clk.tick
    /\ \A n \in PulsesFired(clk.built, clk.tick) : clk.pulse_scrolls[n] = clk.tick

\* A config as the specification describes a usable one: both lists present,
\* every entry with a name and a positive whole number.
ValidConfig(config) ==
    /\ DOMAIN config = {"partitions", "pulses"}
    /\ \A i \in 1..Len(config.partitions) :
          /\ DOMAIN config.partitions[i] = {"name", "modulus"}
          /\ config.partitions[i].modulus \in Nat \ {0}
    /\ \A i \in 1..Len(config.pulses) :
          /\ DOMAIN config.pulses[i] = {"name", "every"}
          /\ config.pulses[i].every \in Nat \ {0}

\* C24: the heartbeat builds the default clock (sub, beat, bar of modulus 4;
\* pulses beat/4, bar/16, phrase/64) when the stored config is absent or
\* invalid, and the clock the config describes when it is valid.
C24_ClockFromConfig ==
    [][BuildClock =>
        clk'.built = IF clk.config # NoConfig /\ ValidConfig(clk.config)
                     THEN [partitions |-> clk.config.partitions,
                           pulses |-> clk.config.pulses]
                     ELSE default_clock]_vars

\* a config whose second pulse has period zero gave the default clock, which
\* has ticked up to its first beat
C24_Witness ==
    /\ "pulses" \in DOMAIN clk.config
    /\ Len(clk.config.pulses) = 2
    /\ clk.built = default_clock
    /\ clk.tick = 4 /\ clk.pulse_scrolls["beat"] = 4

\* C25: a C-ABI call that has returned null or 0 has left the thread's
\* last-error message set (amsal_last_error, which hands the message out,
\* is the one call this is not about).
C25_NullMeansErrorSet ==
    (ffi.call # "amsal_last_error" /\ ffi.ret \in {"null", "0"})
        => ffi.last_error # NoMessage

\* C26: at most one decoder thread and at most one output thread are alive,
\* also when the dispatcher and the heartbeat are both inside play().
C26_OneDecoderOneOutput ==
    /\ Cardinality(Decoders(th)) <= 1
    /\ Cardinality(Outputs(th)) <= 1

\* stop() returns when no thread pauses after stop() has cleared the flag.
StopReturnsUnlessPaused ==
    (th.caller["heartbeat"].pc = "join")
        ~> (th.caller["heartbeat"].pc # "join" \/ th.paused)

\* C27: a thread that is inside stop() waiting for the decoder and output
\* threads gets them joined and returns, whatever pause, resume and seek
\* other threads make meanwhile.
C27_StopReturns ==
    (th.caller["heartbeat"].pc = "join") ~> (th.caller["heartbeat"].pc # "join")

\* C28: a natural track end is recorded once: the heartbeat iteration that
\* follows one which took the natural-end branch, with no command and no
\* thread step in between, adds no play event.
C28_EndRecordedOnce ==
    [][(last = "hb_end" /\ EndHeartbeat) => history' = history]_vars

Holds(t, l) == \E i \in 1..Len(lk.th[t].held) : lk.th[t].held[i] = l

\* t waits for a mutex that u owns
WaitsFor(t, u) == Wants(t) # "none" /\ lk.owner[Wants(t)] = u

\* the thread that owns the mutex x waits for, or Free
Blocker(x) == IF x \in LockThreads /\ Wants(x) # "none" THEN lk.owner[Wants(x)] ELSE Free

RECURSIVE BlockedBy(_, _, _)
BlockedBy(t, x, n) ==
    IF n = 0 \/ x = Free THEN FALSE
    ELSE Blocker(x) = t \/ BlockedBy(t, Blocker(x), n - 1)

\* some chain of waiting threads closes on itself
WaitCycle == \E t \in LockThreads : BlockedBy(t, t, Cardinality(LockThreads))

\* C29: no thread asks for the state lock while it holds the queue lock, no
\* thread has the state lock and the ring mutex together, and no set of
\* threads waits for each other's locks.
C29_LockOrder ==
    /\ \A t \in LockThreads :
          /\ Holds(t, "queue") => Wants(t) # "state"
          /\ Holds(t, "state") => Wants(t) # "ring"
          /\ Holds(t, "ring") => Wants(t) # "state"
    /\ ~WaitCycle

\* the dispatcher is inside advance_queue with the queue guard, the
\* heartbeat's pre-probe waits for it, and the client reads the state
C29_Witness ==
    /\ lk.th["dispatcher"].op = "next" /\ Holds("dispatcher", "queue")
    /\ lk.th["heartbeat"].op = "hb_probe" /\ WaitsFor("heartbeat", "dispatcher")
    /\ Holds("client", "state")

\* C30: when no operation is in flight the stored playback state and the
\* stored queue equal the in-memory state and queue.
C30_StoreMirrorsMemory ==
    ~sq.pending => (store.queue_current = queue /\ store.playback_state = state)

C32_PushOnlyWhenRoom ==
    [][/\ PushWhenRoom =>
            \/ /\ Len(rg.ring.buf) - rg.ring.len >= Len(rg.block)
               /\ Contents(rg'.ring) = Contents(rg.ring) \o rg.block
               /\ rg'.dec = "decode"
            \/ /\ Len(rg.ring.buf) - rg.ring.len < Len(rg.block)
               /\ rg'.ring = rg.ring
               /\ rg'.dec = "sleep"
       /\ (AfterBackoff /\ rg.stop_signal) => rg'.dec = "returned"]_vars

\* The decoder has filled a ring whose cursors had moved on, after a wait.
C32_Witness ==
    /\ rg.op = "push"
    /\ rg.dec = "decode"
    /\ rg.ring.len = RingSize
    /\ rg.ring.read_pos = 2
    /\ Len(rg.block) = 2

\* ------------------------------------------------------------------ C33
\* C33: pull into a slice of k samples returns n = min(k, stored length),
\* writes the n oldest stored samples in push order, fills the rest with
\* zeros and removes those n; push appends behind the stored samples in
\* order; clear empties the ring.
C33_RingIsFifo ==
    [][LET old == Contents(rg.ring)
           new == Contents(rg'.ring)
           k == Len(rg'.out)
           b == rg'.block
       IN  /\ rg'.op = "pull" =>
                  LET n == IF k < Len(old) THEN k ELSE Len(old)
                  IN  /\ rg'.n = n
                      /\ rg'.out = SubSeq(old, 1, n) \o [i \in 1..(k - n) |-> 0]
                      /\ new = SubSeq(old, n + 1, Len(old))
           /\ rg'.op = "push" =>
                  /\ Len(new) >= Len(old)
                  /\ SubSeq(new, 1, Len(old)) = old
                  /\ SubSeq(new, Len(old) + 1, Len(new)) = SubSeq(b, 1, Len(new) - Len(old))
           /\ rg'.op = "clear" => new = <<>>]_vars

\* A pull that read across the end of the buffer and found fewer samples
\* than the slice holds.
C33_Witness ==
    /\ rg.op = "pull"
    /\ rg.out = <<2, 1, 0>>
    /\ rg.n = 2
    /\ rg.ring.read_pos = 1
    /\ rg.ring.len = 0

\* ------------------------------------------------------------------ C34
\* C34: the length never exceeds the capacity, the distance from the read
\* cursor to the write cursor is the length modulo the capacity, and push
\* stores the first capacity - len samples of its block and no more,
\* leaving the stored samples as they were.
RingShape(r) ==
    /\ r.len <= Len(r.buf)
    /\ (r.write_pos - r.read_pos + Len(r.buf)) % Len(r.buf) = r.len % Len(r.buf)

C34_RingBounded ==
    [][/\ RingShape(rg.ring) /\ RingShape(rg'.ring)
       /\ rg'.op = "push" =>
              LET b == rg'.block
                  free == Len(rg.ring.buf) - rg.ring.len
                  kept == IF Len(b) < free THEN Len(b) ELSE free
              IN  /\ rg'.ring.len = rg.ring.len + kept
                  /\ Contents(rg'.ring) = Contents(rg.ring) \o SubSeq(b, 1, kept)]_vars

\* A push of more samples than the capacity into a ring whose cursors had
\* moved on.
C34_Witness ==
    /\ rg.op = "push"
    /\ Len(rg.block) = MaxBlock
    /\ rg.ring.len = RingSize
    /\ rg.ring.read_pos = 2
    /\ rg.ring.write_pos = 2


\* ------------------------------------------------------------------ C35
\* C35: for a length n >= 1 and a current index k < n, whatever the
\* generator draws, the order has n entries, holds every index of 0..n-1
\* exactly once, and starts with k.
C35_ShuffleIsPermutation ==
    (sh.len >= 1 /\ sh.current_index < sh.len) =>
        /\ Len(sh.order) = sh.len
        /\ \A x \in 0..(sh.len - 1) :
               Cardinality({p \in 1..Len(sh.order) : sh.order[p] = x}) = 1
        /\ sh.order[1] = sh.current_index

\* A call for the longest queue whose draws moved the last index to the
\* front of the shuffled rest.
C35_Witness ==
    /\ sh.len = MaxShuffleLen
    /\ sh.current_index = 2
    /\ sh.order[2] = MaxShuffleLen - 1
    /\ sh.order[MaxShuffleLen] = 0


\* ------------------------------------------------------------------ C36
\* C36: in every state where the heartbeat's pre-probe condition holds, the
\* id it looks up, when the library has it, is the id advance_queue starts
\* from that state and queue; and it looks up none under repeat one, or at
\* the last index with repeat off.
ProbeDue(w) ==
    /\ ~w.audio.error
    /\ w.audio.playing /\ ~w.audio.paused
    /\ w.audio.duration_ms > GaplessLeadMs
    /\ w.audio.position_ms > w.audio.duration_ms - GaplessLeadMs

C36_ProbeIsNextTrack ==
    LET w == World
        next_id == PreProbeId(w)
        after == advance_queue(w)
    IN  ProbeDue(w) =>
           /\ (next_id # Null /\ Playable(next_id)) =>
                  /\ after.audio.path = next_id
                  /\ after.audio.playing
                  /\ after.state.current_id = next_id
                  /\ queue_current_id(after.queue) = next_id
           /\ repeat_mode(w.state) = "one" => next_id = Null
           /\ (w.queue.index + 1 >= Len(w.queue.items) /\ repeat_mode(w.state) = "off")
                  => next_id = Null

\* The heartbeat has pre-probed, through the shuffle order, a track that is
\* not the one at the next position of items.
C36_Witness ==
    /\ ProbeDue(World)
    /\ queue.shuffle
    /\ audio.next_probe # Null
    /\ audio.next_probe = PreProbeId(World)
    /\ audio.next_probe # Get(queue.items, queue.index + 1)


\* ------------------------------------------------------------------ C37
\* C37: a set_shuffle command, enabling or disabling, leaves the queue's
\* current media id as it was.
C37_ShuffleKeepsCurrent ==
    [][(\E enabled \in BOOLEAN :
            CommandStep([action |-> "setshuffle", enabled |-> enabled]))
          => queue_current_id(queue') = queue_current_id(queue)]_vars


\* ------------------------------------------------------------------ C38
\* C38: the shuffle flag of the playback state and the shuffle flag of the
\* queue document are equal after every completed operation.
C38_ShuffleFlagsAgree == state.shuffle = queue.shuffle


\* ------------------------------------------------------------------ C39
\* C39: once a track has reached its natural end (decoder finished, output
\* drained) with nothing to follow it, an empty queue or the last index
\* with repeat off, the playback state eventually shows playing = false.
TrackEnded ==
    /\ audio.finished /\ ~audio.playing /\ ~audio.paused /\ ~audio.error
    /\ state.playing

NothingFollows ==
    \/ queue.items = <<>>
    \/ queue.index + 1 >= Len(queue.items) /\ repeat_mode(state) = "off"

C39_EndShowsStopped == (TrackEnded /\ NothingFollows) ~> ~state.playing

\* ------------------------------------------------------------------ C40
\* C40: the volume of the playback state (in thousandths) is the pipeline's
\* volume (in hundredths) after every completed command.
C40_VolumeAgrees == state.volume = audio.volume * 10


====
